---- MODULE Spec2Model ----
(***************************************************************************)
(* Model of the code-execution service: the execute_code request handler   *)
(* (src/app/main.py), the JupyterNotebook session with its run_cell        *)
(* message loop, package installers and get_files artifact capture         *)
(* (src/app/code_server/jupyter/JupyterClient.py), the request /           *)
(* response classes (src/app/code_server/classes/request_classes.py) and   *)
(* the sweeper of the file store (src/app/code_server/utils/file_utils.py).*)
(*                                                                         *)
(* One unit of model time inside run_cell is one second; the clock the     *)
(* sweeper reads counts minutes.  The handler is an `async def`            *)
(* without any await, so it occupies the event loop from entry to return;  *)
(* the kernel processes run beside it and are the only concurrent actors.  *)
(***************************************************************************)
EXTENDS Integers, Sequences, FiniteSets, TLC

\* ------------------------------------------------------------ bounds
MaxReq == 2          \* requests handled in one run of the service
MaxPkgs == 2         \* longest package list of a request
MaxTimeoutIn == 2    \* largest timeout value a caller sends
MaxEmit == 1         \* non-idle messages a kernel emits per command
MaxQueue == 2        \* messages buffered in a session's iopub channel
MaxMsgs == 2         \* messages of one command whose text is followed (SpecText)
MaxBytes == 4        \* longest file content followed to the store (SpecB64)
MaxSweeps == 2       \* sweep cycles followed (SpecSweep)

\* ------------------------------------------------- program constants
MinTimeout == 1      \* check_timeout rejects v <= 1
MaxTimeout == 120    \* check_timeout rejects v > 120
ShortLifetime == 20  \* minutes a file without the marker is kept
LongLifetime == 2880 \* minutes a file with the marker is kept
SleepMinutes == 1    \* asyncio.sleep(60) between two sweep cycles

\* the time at which the service is observed (late enough for a file of
\* the store to be older than either lifetime)
StartClock == LongLifetime + 120

\* the cleanup task suspended in `await asyncio.sleep(60)`
SleepingTask == [state |-> "sleeping", now |-> 0, todo |-> {}, cur |-> <<>>,
                 removes |-> <<>>]

Reqs == 1..MaxReq
OrigDir == 0                     \* the directory the server was started in
NoTask == 0

\* ------------------------------------------------------------ strings
\* Names that the code inspects character by character are sequences of
\* characters, so that lower() and the `in` substring test are computed.
s_python == <<"p","y","t","h","o","n">>
s_python3 == <<"p","y","t","h","o","n","3">>
s_python_scientific == <<"p","y","t","h","o","n","_","s","c","i","e","n","t","i","f","i","c">>
s_bash == <<"b","a","s","h">>
s_java == <<"j","a","v","a">>
s_javascript == <<"j","a","v","a","s","c","r","i","p","t">>

EXECUTION_ENVS == {s_python, s_python_scientific, s_bash, s_java, s_javascript}

LowerChar(c) ==
    CASE c = "B" -> "b"
      [] c = "J" -> "j"
      [] c = "P" -> "p"
      [] c = "S" -> "s"
      [] OTHER -> c

Lower(s) == [i \in 1..Len(s) |-> LowerChar(s[i])]

\* Python's `sub in s` for strings
Contains(s, sub) ==
    \E i \in 0..(Len(s) - Len(sub)) :
        \A j \in 1..Len(sub) : s[i + j] = sub[j]

\* ------------------------------------------------------------- values
\* Python values that reach CodeResponse carry their type.
None == <<"none">>
Str(lines) == <<"str", lines>>
Bool(b) == <<"bool", IF b THEN "True" ELSE "False">>
List(xs) == <<"list", xs>>
TypeOf(v) == v[1]

Truthy(v) ==
    CASE TypeOf(v) = "none" -> FALSE
      [] TypeOf(v) = "bool" -> v[2] = "True"
      [] TypeOf(v) = "str" -> v[2] # <<>>
      [] OTHER -> v[2] # {}

\* ---------------------------------------------------------- requests
\* CodeRequest.check_timeout
check_timeout(v) == ~(v <= MinTimeout) /\ ~(v > MaxTimeout)

\* CodeRequest.check_environment: lower-cases, then allow-lists
check_environment(raw) == Lower(raw) \in EXECUTION_ENVS

\* the request bodies the clients send: code or none, an environment name
\* as the client spells it, a timeout and a list of packages
Requests ==
    { [code |-> c, env |-> e, timeout |-> t, packages |-> [i \in 1..n |-> i]] :
        c \in {"", "code"},
        e \in {s_python_scientific, s_javascript, <<"B","a","s","h">>, s_python3},
        t \in 0..MaxTimeoutIn, n \in 0..MaxPkgs }

\* CodeRequest validation: the field validator of timeout, then the model
\* validator check_environment, which also stores the lower-cased name
IsValid(q) == check_timeout(q.timeout) /\ check_environment(q.env)
Validated(q) == [q EXCEPT !.env = Lower(q.env)]


VARIABLES
    cwd,        \* the process-wide current working directory (os.getcwd())
    loopOwner,  \* the request whose handler occupies the event loop, or NoTask
    pc,         \* pc[r]: where request r's handler stands
    inbox,      \* the request bodies the clients send, in order of handling
    savedCwd,   \* savedCwd[r]: the local `cwd` of execute_code
    tmpdir,     \* tmpdir[r]: request r's TemporaryDirectory exists
    fs,         \* directory entries: [dir, name, isfile, bytes]
    kernel,     \* kernel[r]: "none", "alive" or "dead" (the runtime process)
    kcwd,       \* kcwd[r]: working directory the kernel process was spawned in
    issued,     \* issued[r]: commands sent with client.execute, in order
    kfin,       \* kfin[r]: commands the kernel has finished (idle sent)
    kemit,      \* kemit[r]: non-idle messages emitted for the current command
    iopub,      \* iopub[r]: the session's queue of protocol messages
    loop,       \* loop[r]: locals of the running run_cell call: outputs, the flags,
                \* silence (seconds the current get_iopub_msg call has waited),
                \* since (seconds since the last message or the execute command),
                \* waits (get_iopub_msg calls made), recvd (messages taken) and
                \* end (how the loop ended)
    phase,      \* phase[r]: caller of run_cell: "none", "install" or "code"
    pkgIdx,     \* pkgIdx[r]: index of the package being installed
    results,    \* results[r]: every run_cell result of the request, in order
    pending,    \* pending[r]: how the with block was left
    resp,       \* resp[r]: the CodeResponse returned to the caller
    store,      \* the shared persisted-file store (/files): entries
                \* [req, name, file, bytes, mtime, isfile, via]
    clock,      \* the time, in minutes since the epoch (UTC)
    tzoff,      \* the host's local time minus UTC, in minutes
    lifespan,   \* where the lifespan context manager of the app stands
    cleanup_task \* the task running _cleanup_old_files: its state, the
                \* locals `now`, the listing still to visit (todo) and the
                \* `fname` being handled (cur), and, per name, how many
                \* times the current cycle called os.remove on it (removes)

vars == <<cwd, loopOwner, pc, inbox, savedCwd, tmpdir, fs, kernel, kcwd, issued,
          kfin, kemit, iopub, loop, phase, pkgIdx, results, pending, resp, store,
          clock, tzoff, lifespan, cleanup_task>>

\* the CodeRequest `inp` of request r's handler
Req(r) == Validated(inbox[r])

\* ------------------------------------------------------ CodeResponse
\* CodeResponse's declared field types; pydantic rejects a value of any
\* other type with a ValidationError.
FieldTypes ==
    [output |-> {"str", "none"},
     error |-> {"str", "bool", "none"},
     timedout |-> {"bool"},
     files |-> {"list", "none"},
     stacktrace |-> {"str", "none"}]

\* CodeResponse(...): the response object, or the ValidationError raised
CodeResponse(o, e, t, f, s) ==
    LET r == [output |-> o, error |-> e, timedout |-> t, files |-> f, stacktrace |-> s]
    IN  IF \A n \in DOMAIN FieldTypes : TypeOf(r[n]) \in FieldTypes[n]
        THEN <<"return", r>>
        ELSE <<"raise">>

NoResponse == [output |-> None, error |-> None, timedout |-> None,
               files |-> None, stacktrace |-> None]

\* main.py:255-261
BaseEnvResponse ==
    CodeResponse(None, Str(<<"Base environment is not supported for code execution">>),
                 Bool(FALSE), None, None)

\* main.py:290-296
UnsupportedInstallResponse ==
    CodeResponse(None, Str(<<"Installations of additional packages is not supported for kernel">>),
                 Bool(FALSE), None, None)

\* main.py:318-324
NoCodeResponse ==
    CodeResponse(None, Str(<<"No code provided to run">>), Bool(FALSE), None, None)

\* the 422 answer FastAPI gives when CodeRequest validation fails; the
\* handler is not called and no CodeResponse is built
ValidationErrorResponse ==
    [output |-> None, error |-> Str(<<"422 Unprocessable Entity">>), timedout |-> None,
     files |-> None, stacktrace |-> None]

\* main.py:326-334
GenericErrorResponse ==
    CodeResponse(None, Str(<<"An error occurred">>), Bool(FALSE), None,
                 Str(<<"traceback">>))

\* ------------------------------------------------------------ run_cell
TimeoutNote == "Timeout waiting for cell execution"

\* Texts are sequences of characters.  A run of ordinary characters may
\* stand as one element ("Err"); the characters the code looks at stand
\* alone: white space, the escape character, "[" and "m".
SP == " "
NL == "<LF>"
TAB == "<TAB>"
ESC == "<ESC>"
Whitespace == {SP, NL, TAB}

\* a mime bundle (dict) is a sequence of <<key, value>> pairs
HasKey(d, k) == \E i \in 1..Len(d) : d[i][1] = k
Get(d, k) == d[CHOOSE i \in 1..Len(d) : d[i][1] = k][2]

Msg(type, state, text, data, traceback) ==
    [msg_type |-> type, execution_state |-> state, text |-> text, data |-> data,
     traceback |-> traceback]

StreamMsg(text) == Msg("stream", "na", text, <<>>, <<>>)
ResultMsg(data) == Msg("execute_result", "na", <<>>, data, <<>>)
ErrorMsg(traceback) == Msg("error", "na", <<>>, <<>>, traceback)

\* the messages a kernel publishes while it executes a command
NonIdleMsgs ==
    { Msg("status", "busy", <<>>, <<>>, <<>>),
      StreamMsg(<<"ok", NL>>),
      ResultMsg(<< <<"text/plain", <<"42">>>> >>),
      ResultMsg(<< <<"image/png", <<"iVBOR">>>> >>),
      ErrorMsg(<< <<ESC, "[", "31", "m", "Err", ESC, "[", "0", "m">>, <<SP, "x">> >>) }

IdleMsg == Msg("status", "idle", <<>>, <<>>, <<>>)

\* the value run_cell appends to `outputs` for a message (lines 163-169):
\* content["data"] is a dict, content["text"] a str, content["traceback"] a list
Fragment(m) ==
    CASE m.msg_type = "execute_result" -> <<"dict", m.data>>
      [] m.msg_type = "stream" -> <<"str", m.text>>
      [] m.msg_type = "error" -> <<"list", m.traceback>>
      [] OTHER -> <<"skip", <<>>>>

Appends(m) == m.msg_type \in {"execute_result", "stream", "error"}

\* (variant: text on a stream is taken for an error as well)
SetsErrorFlag_stream(m) == m.msg_type \in {"error", "stream"}

\* lines 167-168: the message types that set error_flag
SetsErrorFlag(m) == m.msg_type = "error"

\* (variant: any status message ends the loop)
IsIdle_anyStatus(m) == m.msg_type = "status"

\* line 172: the loop leaves on status(idle)
IsIdle(m) == m.msg_type = "status" /\ m.execution_state = "idle"

\* sep.join(parts)
RECURSIVE py_join(_, _)
py_join(sep, parts) ==
    IF parts = <<>> THEN <<>>
    ELSE IF Len(parts) = 1 THEN parts[1]
    ELSE parts[1] \o <<sep>> \o py_join(sep, Tail(parts))

\* where the match of \x1b\[.*?m that starts at the head of s ends: the
\* first "m" after the "[", with no line feed before it ("." does not
\* match one); 0 when there is no match at the head of s
MatchEnd(s) ==
    IF Len(s) >= 3 /\ s[1] = ESC /\ s[2] = "["
    THEN LET ends == {j \in 3..Len(s) :
                         s[j] = "m" /\ \A k \in 3..(j - 1) : s[k] \notin {"m", NL}}
         IN  IF ends = {} THEN 0 ELSE CHOOSE j \in ends : TRUE
    ELSE 0

\* re.sub(r"\x1b\[.*?m", "", s): the matches are found from left to right
\* and dropped
RECURSIVE re_sub(_)
re_sub(s) ==
    IF s = <<>> THEN <<>>
    ELSE IF MatchEnd(s) # 0 THEN re_sub(SubSeq(s, MatchEnd(s) + 1, Len(s)))
    ELSE <<Head(s)>> \o re_sub(Tail(s))

RECURSIVE lstrip(_)
lstrip(s) == IF s # <<>> /\ Head(s) \in Whitespace THEN lstrip(Tail(s)) ELSE s

RECURSIVE rstrip(_)
rstrip(s) ==
    IF s # <<>> /\ s[Len(s)] \in Whitespace THEN rstrip(SubSeq(s, 1, Len(s) - 1)) ELSE s

\* (variant: only trailing white space is removed)
py_strip_right(s) == rstrip(s)

\* str.strip()
py_strip(s) == rstrip(lstrip(s))

\* the loop of clean_output (lines 64-74): outputs_only_str
RECURSIVE outputs_only_str(_)
outputs_only_str(outputs) ==
    IF outputs = <<>> THEN <<>>
    ELSE LET i == Head(outputs)
             rest == outputs_only_str(Tail(outputs))
         IN  CASE i[1] = "dict" ->
                     IF HasKey(i[2], "text/plain")
                     THEN <<Get(i[2], "text/plain")>> \o rest
                     ELSE rest
               [] i[1] = "str" -> <<i[2]>> \o rest
               [] i[1] = "list" -> <<re_sub(py_join(NL, i[2]))>> \o rest
               [] OTHER -> rest

\* clean_output (lines 55-76)
clean_output(outputs) == py_strip(py_join(NL, outputs_only_str(outputs)))

NoLoop == [outputs |-> <<>>, error_flag |-> FALSE, timeout_flag |-> FALSE,
           silence |-> 0, since |-> 0, waits |-> 0, recvd |-> 0, end |-> "none"]

\* get_iopub_msg(timeout=timeout): the bound of one wait, in seconds
WaitBound(r) == Req(r).timeout

\* the wait raises Empty once the bound has passed with no message
WaitExpired(r) == loop[r].silence >= WaitBound(r)

\* (variant: the Empty handler goes round the loop again)
BreaksOnEmpty_continue == FALSE

\* the Empty handler ends with `break` (line 178)
BreaksOnEmpty == TRUE

\* (variant: one deadline for the whole execution, the time already waited
\* carried into the next call)
Rearmed_keep(r) == loop[r].silence

\* the time already waited when a new get_iopub_msg call starts
Rearmed(r) == 0

\* ------------------------------------------------------------- installer
\* run_cell catches Empty itself (line 174), so the call made by the
\* installers never raises it and their `except Empty` branch is not entered.
RunCellRaisesEmpty == FALSE

\* (variant: the result of run_cell is not looked at)
InstallPythonStep_ignore(res) == <<"next">>

\* install_python_packages, one iteration (lines 111-116): the tuple
\* returned, or "next" to go on with the following package
InstallPythonStep(res) ==
    IF RunCellRaisesEmpty
    THEN <<Bool(TRUE), Bool(TRUE), Str(<<"Package Install Timeout">>)>>
    ELSE IF res.err
         THEN <<Bool(TRUE), Bool(FALSE), Bool(res.err)>>
         ELSE <<"next">>

\* install_npm_packages, one iteration (lines 130-135)
InstallNpmStep(res) ==
    IF RunCellRaisesEmpty
    THEN <<Bool(TRUE), Bool(TRUE), Str(<<"Timeout installing package">>)>>
    ELSE IF res.err
         THEN <<Bool(TRUE), Bool(FALSE), Bool(res.err)>>
         ELSE <<"next">>

\* (variant: the python installer is used whatever the kernel is)
IsPythonFamily_any(env) == TRUE

\* main.py:267 and 278: the ecosystem of a kernel name
IsPythonFamily(env) == Contains(Lower(env), s_python)
IsJavascriptFamily(env) == Contains(Lower(env), s_javascript)

InstallCmd(env, p) == IF IsPythonFamily(env) THEN <<"pip", p>> ELSE <<"npm", p>>
CodeCmd == <<"code", 0>>

\* main.py:271-277 / 282-288: the response built from the installer's tuple
InstallFailureResponse(pkg_resp) ==
    CodeResponse(None, pkg_resp[1], pkg_resp[2], None, pkg_resp[3])

\* ------------------------------------------------------------ event loop
\* (variant: handlers run in worker threads, one may start while another runs)
CanEnter_threads(r) == TRUE

\* execute_code is an `async def` that never awaits: a handler starts only
\* when no other handler occupies the event loop, and keeps it until it returns.
CanEnter(r) == loopOwner = NoTask

\* ----------------------------------------------------------------- Init
\* names are sequences of characters
OutPng == <<"o", "u", "t", ".", "p", "n", "g">>
MainPy == <<"m", "a", "i", "n", ".", "p", "y">>

\* everything but the requests the clients send
InitRest ==
    /\ cwd = OrigDir
    /\ loopOwner = NoTask
    /\ pc = [r \in Reqs |-> "start"]
    /\ savedCwd = [r \in Reqs |-> OrigDir]
    /\ tmpdir = [r \in Reqs |-> FALSE]
    /\ fs = {[dir |-> OrigDir, name |-> MainPy, isfile |-> TRUE, bytes |-> <<>>]}
    /\ kernel = [r \in Reqs |-> "none"]
    /\ kcwd = [r \in Reqs |-> OrigDir]
    /\ issued = [r \in Reqs |-> <<>>]
    /\ kfin = [r \in Reqs |-> 0]
    /\ kemit = [r \in Reqs |-> 0]
    /\ iopub = [r \in Reqs |-> <<>>]
    /\ loop = [r \in Reqs |-> NoLoop]
    /\ phase = [r \in Reqs |-> "none"]
    /\ pkgIdx = [r \in Reqs |-> 0]
    /\ results = [r \in Reqs |-> <<>>]
    /\ pending = [r \in Reqs |-> <<"none">>]
    /\ resp = [r \in Reqs |-> NoResponse]
    /\ store = {}
    /\ clock = StartClock
    /\ tzoff = 0
    /\ lifespan = "serving"
    /\ cleanup_task = SleepingTask

\* one request, of any shape
Init ==
    /\ inbox \in {<<q>> : q \in Requests}
    /\ InitRest

\* MaxReq requests of one shape (one package, then code; the environment
\* one that is allowed or the base environment), handled one after the
\* other by the same server process
InitSeq ==
    /\ inbox \in [1..MaxReq ->
                    {q \in Requests :
                        /\ Len(q.packages) = 1
                        /\ q.env \in {s_python_scientific, s_python3}
                        /\ q.code # ""
                        /\ check_timeout(q.timeout)}]
    /\ InitRest

\* -------------------------------------------------------------- handler
\* the body of request r does not validate as a CodeRequest: FastAPI answers
\* 422 without calling execute_code
Reject(r) ==
    /\ pc[r] = "start"
    /\ CanEnter(r)
    /\ r <= Len(inbox)
    /\ ~IsValid(inbox[r])
    /\ \A q \in Reqs : q < r => pc[q] # "start"
    /\ pc' = [pc EXCEPT ![r] = "done"]
    /\ resp' = [resp EXCEPT ![r] = ValidationErrorResponse]
    /\ UNCHANGED <<clock, tzoff, lifespan, cleanup_task>>
    /\ UNCHANGED <<cwd, loopOwner, inbox, savedCwd, tmpdir, fs, kernel, kcwd, issued,
                   kfin, kemit, iopub, loop, phase, pkgIdx, results, pending, store>>

\* main.py:242-263: os.getcwd(), TemporaryDirectory(), os.chdir(tmpdir),
\* then the base-environment and empty-code checks
\* (variant: the session is created whatever the code is)
HasCode_always(q) == TRUE

\* main.py:263: `if code_blob:`
HasCode(q) == q.code # ""

Enter(r) ==
    /\ pc[r] = "start"
    /\ CanEnter(r)
    /\ r <= Len(inbox)
    /\ IsValid(inbox[r])
    /\ \A q \in Reqs : q < r => pc[q] # "start"
    /\ LET q == Req(r) IN
        /\ IF q.env = s_python3
           THEN /\ pc' = [pc EXCEPT ![r] = "withexit"]
                /\ pending' = [pending EXCEPT ![r] = BaseEnvResponse]
           ELSE IF HasCode(q)
                THEN /\ pc' = [pc EXCEPT ![r] = "spawn"]
                     /\ UNCHANGED pending
                ELSE /\ pc' = [pc EXCEPT ![r] = "withexit"]
                     /\ pending' = [pending EXCEPT ![r] = <<"fall">>]
    /\ loopOwner' = r
    /\ savedCwd' = [savedCwd EXCEPT ![r] = cwd]
    /\ tmpdir' = [tmpdir EXCEPT ![r] = TRUE]
    /\ cwd' = r
    /\ UNCHANGED <<clock, tzoff, lifespan, cleanup_task>>
    /\ UNCHANGED <<inbox, fs, kernel, kcwd, issued, kfin, kemit, iopub, loop, phase,
                   pkgIdx, results, resp, store>>

\* (variant: the kernel is started before the handler changes directory)
SpawnDir_before_chdir(r) == savedCwd[r]

\* run_kernel(kernel_name=...) passes no directory: the kernel process
\* inherits the server's current directory at the time of the call
SpawnDir(r) == cwd

\* main.py:264-296 with JupyterNotebook.__init__: the kernel process is
\* started; then the package dispatch
Spawn(r) ==
    /\ pc[r] = "spawn"
    /\ kernel' = [kernel EXCEPT ![r] = "alive"]
    /\ kcwd' = [kcwd EXCEPT ![r] = SpawnDir(r)]
    /\ IF Req(r).packages # <<>>
       THEN IF IsPythonFamily(Req(r).env) \/ IsJavascriptFamily(Req(r).env)
            THEN /\ pc' = [pc EXCEPT ![r] = "runcell"]
                 /\ phase' = [phase EXCEPT ![r] = "install"]
                 /\ pkgIdx' = [pkgIdx EXCEPT ![r] = 1]
                 /\ UNCHANGED pending
            ELSE /\ pc' = [pc EXCEPT ![r] = "withexit"]
                 /\ pending' = [pending EXCEPT ![r] = UnsupportedInstallResponse]
                 /\ UNCHANGED <<phase, pkgIdx>>
       ELSE /\ pc' = [pc EXCEPT ![r] = "runcell"]
            /\ phase' = [phase EXCEPT ![r] = "code"]
            /\ UNCHANGED <<pending, pkgIdx>>
    /\ UNCHANGED <<clock, tzoff, lifespan, cleanup_task>>
    /\ UNCHANGED <<cwd, loopOwner, inbox, savedCwd, tmpdir, fs, issued, kfin, kemit,
                   iopub, loop, results, resp, store>>

\* JupyterNotebook.__init__ raises (the kernel cannot be started)
SpawnFail(r) ==
    /\ pc[r] = "spawn"
    /\ pc' = [pc EXCEPT ![r] = "withexit"]
    /\ pending' = [pending EXCEPT ![r] = <<"raise">>]
    /\ UNCHANGED <<clock, tzoff, lifespan, cleanup_task>>
    /\ UNCHANGED <<cwd, loopOwner, inbox, savedCwd, tmpdir, fs, kernel, kcwd, issued,
                   kfin, kemit, iopub, loop, phase, pkgIdx, results, resp, store>>

\* ----------------------------------------------------- run_cell actions
\* lines 149-154 and the first get_iopub_msg call: the command is issued
RunCellStart(r) ==
    /\ pc[r] = "runcell"
    /\ issued' = [issued EXCEPT ![r] =
           Append(@, IF phase[r] = "install"
                     THEN InstallCmd(Req(r).env, Req(r).packages[pkgIdx[r]])
                     ELSE CodeCmd)]
    /\ loop' = [loop EXCEPT ![r] = [NoLoop EXCEPT !.waits = 1, !.silence = Rearmed(r)]]
    /\ pc' = [pc EXCEPT ![r] = "wait"]
    /\ UNCHANGED <<clock, tzoff, lifespan, cleanup_task>>
    /\ UNCHANGED <<cwd, loopOwner, inbox, savedCwd, tmpdir, fs, kernel, kcwd, kfin,
                   kemit, iopub, phase, pkgIdx, results, pending, resp, store>>

\* one second passes inside get_iopub_msg with the queue empty
Tick(r) ==
    /\ pc[r] = "wait"
    /\ iopub[r] = <<>>
    /\ ~WaitExpired(r)
    /\ loop' = [loop EXCEPT ![r].silence = @ + 1, ![r].since = @ + 1]
    /\ UNCHANGED <<clock, tzoff, lifespan, cleanup_task>>
    /\ UNCHANGED <<cwd, loopOwner, pc, inbox, savedCwd, tmpdir, fs, kernel, kcwd,
                   issued, kfin, kemit, iopub, phase, pkgIdx, results, pending,
                   resp, store>>

\* lines 174-178: get_iopub_msg raises Empty
WaitTimeout(r) ==
    /\ pc[r] = "wait"
    /\ iopub[r] = <<>>
    /\ WaitExpired(r)
    /\ loop' = [loop EXCEPT ![r].outputs = Append(@, <<"str", <<TimeoutNote>>>>),
                            ![r].error_flag = TRUE,
                            ![r].timeout_flag = TRUE,
                            ![r].end = IF BreaksOnEmpty THEN "timeout" ELSE @,
                            ![r].silence = IF BreaksOnEmpty THEN @ ELSE Rearmed(r),
                            ![r].waits = IF BreaksOnEmpty THEN @ ELSE @ + 1]
    /\ pc' = [pc EXCEPT ![r] = IF BreaksOnEmpty THEN "getfiles" ELSE "wait"]
    /\ UNCHANGED <<clock, tzoff, lifespan, cleanup_task>>
    /\ UNCHANGED <<cwd, loopOwner, inbox, savedCwd, tmpdir, fs, kernel, kcwd, issued,
                   kfin, kemit, iopub, phase, pkgIdx, results, pending, resp, store>>
\* status(idle) messages in a queue
IdlesIn(q) == Cardinality({i \in 1..Len(q) : IsIdle(q[i])})

\* the status(idle) at the head of the channel is the one of the command
\* this run_cell call issued: the kernel has sent one for every command
\* issued so far, and no other is queued behind it
OwnIdle(r) == kfin[r] - IdlesIn(Tail(iopub[r])) = Len(issued[r])

\* (variant: the message's parent id is compared with msg_id, a status of
\* another command is passed over)
EndsLoop_own(r, m) == IsIdle(m) /\ OwnIdle(r)

\* lines 171-173: the loop leaves on any status(idle); msg_id (line 154)
\* is never looked at
EndsLoop(r, m) == IsIdle(m)


\* lines 158-173: a message is taken from the queue and classified
Recv(r) ==
    /\ pc[r] = "wait"
    /\ iopub[r] # <<>>
    /\ LET m == Head(iopub[r])
       IN  /\ iopub' = [iopub EXCEPT ![r] = Tail(@)]
           /\ loop' = [loop EXCEPT
                  ![r].outputs = IF Appends(m) THEN Append(@, Fragment(m)) ELSE @,
                  ![r].error_flag = IF SetsErrorFlag(m) THEN TRUE ELSE @,
                  ![r].end = IF EndsLoop(r, m) THEN "normal" ELSE @,
                  ![r].silence = IF EndsLoop(r, m) THEN @ ELSE Rearmed(r),
                  ![r].since = 0,
                  ![r].recvd = @ + 1,
                  ![r].waits = IF EndsLoop(r, m) THEN @ ELSE @ + 1]
           /\ pc' = [pc EXCEPT ![r] = IF EndsLoop(r, m) THEN "getfiles" ELSE "wait"]
    /\ UNCHANGED <<clock, tzoff, lifespan, cleanup_task>>
    /\ UNCHANGED <<cwd, loopOwner, inbox, savedCwd, tmpdir, fs, kernel, kcwd, issued,
                   kfin, kemit, phase, pkgIdx, results, pending, resp, store>>

\* (variant: no `except Exception`, the exception leaves run_cell and is
\* caught by the handler)
WaitRaise_propagate(r) ==
    /\ pc[r] = "wait"
    /\ loop' = [loop EXCEPT ![r] = NoLoop]
    /\ pending' = [pending EXCEPT ![r] = <<"raise">>]
    /\ pc' = [pc EXCEPT ![r] = "withexit"]
    /\ UNCHANGED <<clock, tzoff, lifespan, cleanup_task>>
    /\ UNCHANGED <<cwd, loopOwner, inbox, savedCwd, tmpdir, fs, kernel, kcwd, issued,
                   kfin, kemit, iopub, phase, pkgIdx, results, resp, store>>

\* lines 179-181: any other exception inside the loop body
WaitRaise(r) ==
    /\ pc[r] = "wait"
    /\ loop' = [loop EXCEPT ![r].end = "fatal"]
    /\ pc' = [pc EXCEPT ![r] = "getfiles"]
    /\ UNCHANGED <<clock, tzoff, lifespan, cleanup_task>>
    /\ UNCHANGED <<cwd, loopOwner, inbox, savedCwd, tmpdir, fs, kernel, kcwd, issued,
                   kfin, kemit, iopub, phase, pkgIdx, results, pending, resp, store>>

\* ------------------------------------------------------------- base64
\* Bytes are numbers 0..255; a str is the sequence of its code points.
\* (variant: the URL-safe alphabet, "-" and "_" for the last two digits)
Code_urlsafe(d) ==
    IF d < 26 THEN 65 + d
    ELSE IF d < 52 THEN 97 + (d - 26)
    ELSE IF d < 62 THEN 48 + (d - 52)
    ELSE IF d = 62 THEN 45 ELSE 95

\* the ASCII code of a base64 digit: A-Z, a-z, 0-9, "+", "/"
Code(d) ==
    IF d < 26 THEN 65 + d
    ELSE IF d < 52 THEN 97 + (d - 26)
    ELSE IF d < 62 THEN 48 + (d - 52)
    ELSE IF d = 62 THEN 43 ELSE 47

PadCode == 61                    \* "="

IsDigitCode(c) ==
    \/ c \in 65..90 \/ c \in 97..122 \/ c \in 48..57 \/ c = 43 \/ c = 47

\* the base64 digit an ASCII code stands for
Val(c) ==
    IF c \in 65..90 THEN c - 65
    ELSE IF c \in 97..122 THEN c - 97 + 26
    ELSE IF c \in 48..57 THEN c - 48 + 52
    ELSE IF c = 43 THEN 62 ELSE 63

\* base64.b64encode: three bytes give four digits, a last group of one or
\* two bytes is padded with "="
RECURSIVE b64encode(_)
b64encode(bs) ==
    IF bs = <<>> THEN <<>>
    ELSE IF Len(bs) = 1
    THEN <<Code(bs[1] \div 4), Code((bs[1] % 4) * 16), PadCode, PadCode>>
    ELSE IF Len(bs) = 2
    THEN <<Code(bs[1] \div 4), Code((bs[1] % 4) * 16 + bs[2] \div 16),
           Code((bs[2] % 16) * 4), PadCode>>
    ELSE <<Code(bs[1] \div 4), Code((bs[1] % 4) * 16 + bs[2] \div 16),
           Code((bs[2] % 16) * 4 + bs[3] \div 64), Code(bs[3] % 64)>>
         \o b64encode(SubSeq(bs, 4, Len(bs)))

\* what b64decode gives for input it rejects (binascii.Error)
B64Error == <<-1>>

\* the groups of four, once the characters outside the alphabet are dropped
RECURSIVE DecodeGroups(_)
DecodeGroups(cs) ==
    IF cs = <<>> THEN <<>>
    ELSE IF Len(cs) < 4 \/ cs[1] = PadCode \/ cs[2] = PadCode THEN B64Error
    ELSE LET b1 == Val(cs[1]) * 4 + Val(cs[2]) \div 16
         IN  IF cs[3] = PadCode
             THEN IF cs[4] = PadCode THEN <<b1>> ELSE B64Error
             ELSE LET b2 == (Val(cs[2]) % 16) * 16 + Val(cs[3]) \div 4
                  IN  IF cs[4] = PadCode THEN <<b1, b2>>
                      ELSE LET rest == DecodeGroups(SubSeq(cs, 5, Len(cs)))
                           IN  IF rest = B64Error THEN B64Error
                               ELSE <<b1, b2, (Val(cs[3]) % 4) * 64 + Val(cs[4])>> \o rest

KeptByDecoder(c) == IsDigitCode(c) \/ c = PadCode

\* base64.b64decode (not validating): characters outside the alphabet are
\* discarded, then the groups are decoded
b64decode(cs) == DecodeGroups(SelectSeq(cs, KeptByDecoder))

\* bytes.decode() and str.encode() (UTF-8): below 128 a byte and its code
\* point are the same number
bytes_decode(bs) == [i \in 1..Len(bs) |-> IF bs[i] < 128 THEN bs[i] ELSE 65533]
str_encode(cs) == [i \in 1..Len(cs) |-> IF cs[i] < 128 THEN cs[i] ELSE 239]

\* get_files, lines 93-95: the "content" of a captured file
Content(e) == bytes_decode(b64encode(e.bytes))

\* main.py:304: file['file'].split('.'): the part before the last "." (empty
\* when the name has none) and the part after it (the whole name then)
LastDot(s) ==
    IF \E i \in 1..Len(s) : s[i] = "."
    THEN CHOOSE i \in 1..Len(s) : s[i] = "." /\ \A j \in (i + 1)..Len(s) : s[j] # "."
    ELSE 0
Stem(s) == SubSeq(s, 1, LastDot(s) - 1)
Ext(s) == SubSeq(s, LastDot(s) + 1, Len(s))

\* uuid4().hex, shortened: one per request
UuidOf(r) == <<"e", SubSeq(<<"1", "2", "3", "4", "5", "6", "7", "8", "9">>, r, r)[1]>>

\* main.py:304: the name of the file in the store
PersistedName(fname, uuid) == Stem(fname) \o <<"-">> \o uuid \o <<".">> \o Ext(fname)

\* main.py:305-306: the bytes written to the file in the store
PersistedBytes(e) == b64decode(str_encode(Content(e)))

\* get_files lists os.getcwd() (lines 87 and 91)
ListedDir(r) == cwd

\* (variant: run_cell captures only for the submitted code)
Captured_codeOnly(r) ==
    IF phase[r] = "code" THEN {e \in fs : e.dir = ListedDir(r) /\ e.isfile} ELSE {}

\* get_files (lines 87-98): the regular files of the listed directory, each
\* read, encoded and removed
Captured(r) == {e \in fs : e.dir = ListedDir(r) /\ e.isfile}

\* (variant: get_files leaves the files it has read where they are)
Removed_kept(files) == {}

\* get_files line 96: `os.remove(file)`, each file once it has been read
Removed(files) == files

\* line 183: the tuple run_cell returns
RunCellResult(r) ==
    [out |-> clean_output(loop[r].outputs),
     err |-> loop[r].error_flag,
     files |-> Captured(r),
     to |-> loop[r].timeout_flag,
     end |-> loop[r].end]

Summary(res) == [err |-> res.err, to |-> res.to, end |-> res.end]

\* ------------------------------------------------- handler, continued
\* (variant: the installer stops after its first package)
MorePackages_first(r) == FALSE

\* `for package in packages` (JupyterClient.py lines 110 / 129): a further
\* package follows the one just installed
MorePackages(r) == pkgIdx[r] < Len(Req(r).packages)

\* run_cell returns to the installer: line 183 with get_files, the rest of
\* the installer's iteration (JupyterClient.py lines 110-117 / 129-136) and
\* the handler's `if pkg_resp:` (main.py 270, 281)
InstallNext(r) ==
    /\ pc[r] = "getfiles"
    /\ phase[r] = "install"
    /\ LET res == RunCellResult(r)
           step == IF IsPythonFamily(Req(r).env)
                   THEN InstallPythonStep(res)
                   ELSE InstallNpmStep(res)
       IN  /\ fs' = fs \ Removed(res.files)
           /\ results' = [results EXCEPT ![r] = Append(@, Summary(res))]
           /\ IF Len(step) = 1
              THEN /\ IF MorePackages(r)
                      THEN /\ pkgIdx' = [pkgIdx EXCEPT ![r] = @ + 1]
                           /\ UNCHANGED phase
                      ELSE /\ phase' = [phase EXCEPT ![r] = "code"]
                           /\ UNCHANGED pkgIdx
                   /\ pc' = [pc EXCEPT ![r] = "runcell"]
                   /\ UNCHANGED pending
              ELSE /\ pending' = [pending EXCEPT ![r] = InstallFailureResponse(step)]
                   /\ pc' = [pc EXCEPT ![r] = "withexit"]
                   /\ UNCHANGED <<phase, pkgIdx>>
    /\ loop' = [loop EXCEPT ![r] = NoLoop]
    /\ UNCHANGED <<clock, tzoff, lifespan, cleanup_task>>
    /\ UNCHANGED <<cwd, loopOwner, inbox, savedCwd, tmpdir, kernel, kcwd, issued,
                   kfin, kemit, iopub, resp, store>>

\* (variant: the list is handed over as it is, empty or not)
FilesField_list(files) == List(files)

\* main.py:312-316: `files=file_urls if files else None`
FilesField(files) == IF files # {} THEN List(files) ELSE None

\* get_files raises on one of the files (open or os.remove fails, lines
\* 93-96): the files handled before it are gone, the exception leaves
\* run_cell and the installer and reaches the handler's except clause
CaptureFail(r) ==
    /\ pc[r] = "getfiles"
    /\ \E bad \in Captured(r) :
          \E handled \in SUBSET (Captured(r) \ {bad}) :
              fs' = fs \ handled
    /\ pending' = [pending EXCEPT ![r] = <<"raise">>]
    /\ loop' = [loop EXCEPT ![r] = NoLoop]
    /\ pc' = [pc EXCEPT ![r] = "withexit"]
    /\ UNCHANGED <<clock, tzoff, lifespan, cleanup_task>>
    /\ UNCHANGED <<cwd, loopOwner, inbox, savedCwd, tmpdir, kernel, kcwd, issued,
                   kfin, kemit, iopub, phase, pkgIdx, results, resp, store>>

\* run_cell returns to the handler: line 183 with get_files, then main.py
\* 299-316: the captured files are written to the store one by one (a write
\* may fail, leaving the earlier ones written), then the response is built
AfterRun(r) ==
    /\ pc[r] = "getfiles"
    /\ phase[r] = "code"
    /\ LET res == RunCellResult(r)
       IN  /\ fs' = fs \ Removed(res.files)
           /\ results' = [results EXCEPT ![r] = Append(@, Summary(res))]
           /\ \E written \in SUBSET res.files :
               /\ store' = store \cup {[req |-> r,
                                          name |-> PersistedName(e.name, UuidOf(r)),
                                          file |-> e.name,
                                          bytes |-> PersistedBytes(e),
                                          mtime |-> clock, isfile |-> TRUE,
                                          via |-> "execute_code"] :
                                         e \in written}
               /\ pending' = [pending EXCEPT ![r] =
                      IF written = res.files
                      THEN CodeResponse(Str(res.out), Bool(res.err), Bool(res.to),
                                        FilesField(res.files), None)
                      ELSE <<"raise">>]
    /\ loop' = [loop EXCEPT ![r] = NoLoop]
    /\ pc' = [pc EXCEPT ![r] = "withexit"]
    /\ UNCHANGED <<clock, tzoff, lifespan, cleanup_task>>
    /\ UNCHANGED <<cwd, loopOwner, inbox, savedCwd, tmpdir, kernel, kcwd, issued,
                   kfin, kemit, iopub, phase, pkgIdx, resp>>

\* (variant: nothing follows the with block, the handler returns None)
Returned_fallsOff(p) ==
    CASE p[1] = "fall" -> NoResponse
      [] p[1] = "raise" -> GenericErrorResponse[2]
      [] OTHER -> p[2]

\* (variant: no except clause, the exception leaves the handler and no
\* CodeResponse is returned)
Returned_propagate(p) ==
    CASE p[1] = "fall" -> NoCodeResponse[2]
      [] p[1] = "raise" -> NoResponse
      [] OTHER -> p[2]

\* the response the handler returns once the with block is left: the one
\* returned inside it, line 318 (no code), or the except clause (326-334)
Returned(p) ==
    CASE p[1] = "fall" -> NoCodeResponse[2]
      [] p[1] = "raise" -> GenericErrorResponse[2]
      [] OTHER -> p[2]

\* (variant: no finally clause, the directory is left as it is)
RestoredDir_none(r) == cwd

\* the directory os.chdir is called with in the finally clause (line 337)
RestoredDir(r) == savedCwd[r]

\* the handler leaves: the with block ends (main.py:245, the temporary
\* directory is removed), the finally clause runs (336-338) and the
\* response is returned; the handler's locals are gone.  Nothing reads the
\* session's channel from here on, so what it holds is dropped.
Exit(r) ==
    /\ pc[r] = "withexit"
    /\ tmpdir' = [tmpdir EXCEPT ![r] = FALSE]
    /\ fs' = {e \in fs : e.dir # r}
    /\ cwd' = RestoredDir(r)
    /\ resp' = [resp EXCEPT ![r] = Returned(pending[r])]
    /\ pending' = [pending EXCEPT ![r] = <<"none">>]
    /\ phase' = [phase EXCEPT ![r] = "none"]
    /\ pkgIdx' = [pkgIdx EXCEPT ![r] = 0]
    /\ pc' = [pc EXCEPT ![r] = "done"]
    /\ loopOwner' = NoTask
    /\ iopub' = [iopub EXCEPT ![r] = <<>>]
    /\ kfin' = [kfin EXCEPT ![r] = Len(issued[r])]
    /\ kemit' = [kemit EXCEPT ![r] = 0]
    /\ UNCHANGED <<clock, tzoff, lifespan, cleanup_task>>
    /\ UNCHANGED <<inbox, savedCwd, kernel, kcwd, issued, loop, results, store>>

\* JupyterNotebook.__init__ (lines 52-53) keeps only the generator of
\* run_kernel(): nothing in the handler closes it, so the kernel is shut
\* down when the interpreter finalizes the abandoned generator, which the
\* handler neither does nor waits for
Finalize(r) ==
    /\ pc[r] = "done"
    /\ kernel[r] = "alive"
    /\ kernel' = [kernel EXCEPT ![r] = "dead"]
    /\ iopub' = [iopub EXCEPT ![r] = <<>>]
    /\ UNCHANGED <<clock, tzoff, lifespan, cleanup_task>>
    /\ UNCHANGED <<cwd, loopOwner, pc, inbox, savedCwd, tmpdir, fs, kcwd, issued, kfin,
                   kemit, loop, phase, pkgIdx, results, pending, resp, store>>

\* ------------------------------------------------------------- kernel
\* the session may still read what the kernel sends
\* (a message that arrives while the session is not inside get_iopub_msg is
\* queued and seen at the start of the next call, so arrivals are taken there)
ClientReads(r) == pc[r] = "wait"

KernelBusy(r) == kernel[r] = "alive" /\ kfin[r] < Len(issued[r])

\* the kernel publishes a message of the command it is executing; the
\* status(idle) message ends the command
KernelEmit(r) ==
    /\ KernelBusy(r)
    /\ ClientReads(r)
    /\ Len(iopub[r]) < MaxQueue
    /\ \/ /\ kemit[r] < MaxEmit
          /\ \E m \in NonIdleMsgs : iopub' = [iopub EXCEPT ![r] = Append(@, m)]
          /\ kemit' = [kemit EXCEPT ![r] = @ + 1]
          /\ UNCHANGED kfin
       \/ /\ iopub' = [iopub EXCEPT ![r] = Append(@, IdleMsg)]
          /\ kemit' = [kemit EXCEPT ![r] = 0]
          /\ kfin' = [kfin EXCEPT ![r] = @ + 1]
    /\ UNCHANGED <<clock, tzoff, lifespan, cleanup_task>>
    /\ UNCHANGED <<cwd, loopOwner, pc, inbox, savedCwd, tmpdir, fs, kernel, kcwd,
                   issued, loop, phase, pkgIdx, results, pending, resp, store>>

\* the executed code creates a file or a directory in the kernel's
\* working directory
KernelWrite(r) ==
    /\ KernelBusy(r)
    /\ pc[r] \in {"wait", "withexit"}
    /\ IF kcwd[r] = OrigDir THEN TRUE ELSE tmpdir[kcwd[r]]
    /\ \E e \in {[dir |-> kcwd[r], name |-> n, isfile |-> TRUE, bytes |-> b] :
                      n \in {OutPng}, b \in {<<255, 0>>}}
              \cup {[dir |-> kcwd[r], name |-> n, isfile |-> FALSE, bytes |-> <<>>] :
                      n \in {<<"s", "u", "b">>}} :
        /\ \A x \in fs : ~(x.dir = e.dir /\ x.name = e.name)
        /\ fs' = fs \cup {e}
    /\ UNCHANGED <<clock, tzoff, lifespan, cleanup_task>>
    /\ UNCHANGED <<cwd, loopOwner, pc, inbox, savedCwd, tmpdir, kernel, kcwd, issued,
                   kfin, kemit, iopub, loop, phase, pkgIdx, results, pending,
                   resp, store>>

\* ---------------------------------------------------------------- Spec
Next ==
    \E r \in Reqs :
        \/ Reject(r)
        \/ Enter(r)
        \/ Spawn(r)
        \/ SpawnFail(r)
        \/ RunCellStart(r)
        \/ Tick(r)
        \/ WaitTimeout(r)
        \/ Recv(r)
        \/ WaitRaise(r)
        \/ InstallNext(r)
        \/ CaptureFail(r)
        \/ AfterRun(r)
        \/ Exit(r)
        \/ Finalize(r)
        \/ KernelEmit(r)
        \/ KernelWrite(r)

Spec == Init /\ [][Next]_vars

SpecSeq == InitSeq /\ [][Next]_vars

\* The handler's thread is never starved while it is inside run_cell: time
\* passes in get_iopub_msg, a wait that has reached its bound raises Empty,
\* and a message that is in the channel is handed over.
SpecLive ==
    /\ Init /\ [][Next]_vars
    /\ \A r \in Reqs : WF_vars(Tick(r)) /\ WF_vars(WaitTimeout(r)) /\ WF_vars(Recv(r))

\* ------------------------------------------------------------ SpecText
\* The text run_cell returns, followed over the messages of one command.
\* The request is inside the run_cell call of its code; the messages the
\* kernel published for the command are in the channel and nothing more
\* is sent.
RECURSIVE SeqsUpTo(_, _)
SeqsUpTo(S, n) ==
    IF n = 0 THEN {<<>>}
    ELSE LET shorter == SeqsUpTo(S, n - 1)
         IN  shorter \cup {Append(q, x) : q \in shorter, x \in S}

\* the channel: up to MaxMsgs messages, then status(idle) if the command has
\* finished
TextQueues ==
    LET TextMsgs ==
          { Msg("status", "busy", <<>>, <<>>, <<>>),
        StreamMsg(<<>>),
        StreamMsg(<<"a">>),
        StreamMsg(<<SP, "a", NL>>),
        StreamMsg(<<NL>>),
        ResultMsg(<< <<"text/plain", <<"42">>>> >>),
        ResultMsg(<< <<"text/plain", <<TAB, "b">>>> >>),
        ResultMsg(<< <<"text/html", <<"h">>>>, <<"text/plain", <<"p">>>> >>),
        ResultMsg(<< <<"image/png", <<"iVBOR">>>> >>),
        ErrorMsg(<<>>),
        ErrorMsg(<< <<ESC, "[", "31", "m", "E", ESC, "[", "0", "m">> >>),
        ErrorMsg(<< <<"T">>, <<ESC, "[", "1", "m", "v">> >>),
        ErrorMsg(<< <<ESC, "[", "3">>, <<"1", "m", "z">> >>),
        ErrorMsg(<< <<ESC, "[", "2", "K", "e", "m", "z">> >>) }
        body == SeqsUpTo(TextMsgs, MaxMsgs)
    IN  body \cup {Append(q, IdleMsg) : q \in body}

TextRequest == [code |-> "code", env |-> s_python_scientific, timeout |-> MinTimeout + 1,
                packages |-> <<>>]

InitText ==
    /\ inbox = <<TextRequest>>
    /\ cwd = 1
    /\ loopOwner = 1
    /\ pc = [r \in Reqs |-> IF r = 1 THEN "wait" ELSE "start"]
    /\ savedCwd = [r \in Reqs |-> OrigDir]
    /\ tmpdir = [r \in Reqs |-> r = 1]
    /\ fs = {[dir |-> OrigDir, name |-> MainPy, isfile |-> TRUE, bytes |-> <<>>]}
    /\ kernel = [r \in Reqs |-> IF r = 1 THEN "alive" ELSE "none"]
    /\ kcwd = [r \in Reqs |-> IF r = 1 THEN 1 ELSE OrigDir]
    /\ issued = [r \in Reqs |-> IF r = 1 THEN <<CodeCmd>> ELSE <<>>]
    /\ iopub \in {[r \in Reqs |-> IF r = 1 THEN q ELSE <<>>] : q \in TextQueues}
    /\ kfin = [r \in Reqs |->
                  IF r = 1 /\ iopub[1] # <<>> /\ IsIdle(iopub[1][Len(iopub[1])])
                  THEN 1 ELSE 0]
    /\ kemit = [r \in Reqs |-> 0]
    /\ loop = [r \in Reqs |-> IF r = 1 THEN [NoLoop EXCEPT !.waits = 1] ELSE NoLoop]
    /\ phase = [r \in Reqs |-> IF r = 1 THEN "code" ELSE "none"]
    /\ pkgIdx = [r \in Reqs |-> 0]
    /\ results = [r \in Reqs |-> <<>>]
    /\ pending = [r \in Reqs |-> <<"none">>]
    /\ resp = [r \in Reqs |-> NoResponse]
    /\ store = {}
    /\ clock = StartClock
    /\ tzoff = 0
    /\ lifespan = "serving"
    /\ cleanup_task = SleepingTask

NextText ==
    \/ Tick(1)
    \/ WaitTimeout(1)
    \/ Recv(1)
    \/ WaitRaise(1)
    \/ AfterRun(1)
    \/ Exit(1)

SpecText == InitText /\ [][NextText]_vars

\* ------------------------------------------------------------- SpecB64
\* One file of the working directory followed from capture to the store.
\* The request is inside the run_cell call of its code, the command has
\* finished (status(idle) is in the channel) and has left one file.
InitB64 ==
    /\ inbox = <<TextRequest>>
    /\ cwd = 1
    /\ loopOwner = 1
    /\ pc = [r \in Reqs |-> IF r = 1 THEN "wait" ELSE "start"]
    /\ savedCwd = [r \in Reqs |-> OrigDir]
    /\ tmpdir = [r \in Reqs |-> r = 1]
    /\ \E b \in SeqsUpTo({0, 97, 255}, MaxBytes) :
          fs = {[dir |-> OrigDir, name |-> MainPy, isfile |-> TRUE, bytes |-> <<>>],
                [dir |-> 1, name |-> OutPng, isfile |-> TRUE, bytes |-> b]}
    /\ kernel = [r \in Reqs |-> IF r = 1 THEN "alive" ELSE "none"]
    /\ kcwd = [r \in Reqs |-> IF r = 1 THEN 1 ELSE OrigDir]
    /\ issued = [r \in Reqs |-> IF r = 1 THEN <<CodeCmd>> ELSE <<>>]
    /\ iopub = [r \in Reqs |-> IF r = 1 THEN <<IdleMsg>> ELSE <<>>]
    /\ kfin = [r \in Reqs |-> IF r = 1 THEN 1 ELSE 0]
    /\ kemit = [r \in Reqs |-> 0]
    /\ loop = [r \in Reqs |-> IF r = 1 THEN [NoLoop EXCEPT !.waits = 1] ELSE NoLoop]
    /\ phase = [r \in Reqs |-> IF r = 1 THEN "code" ELSE "none"]
    /\ pkgIdx = [r \in Reqs |-> 0]
    /\ results = [r \in Reqs |-> <<>>]
    /\ pending = [r \in Reqs |-> <<"none">>]
    /\ resp = [r \in Reqs |-> NoResponse]
    /\ store = {}
    /\ clock = StartClock
    /\ tzoff = 0
    /\ lifespan = "serving"
    /\ cleanup_task = SleepingTask

NextB64 ==
    \/ Recv(1)
    \/ AfterRun(1)
    \/ Exit(1)

SpecB64 == InitB64 /\ [][NextB64]_vars

\* --------------------------------------------------------- SpecPersist
\* The files of one command followed from capture to the store.  The
\* request is inside the run_cell call of its code, the command has
\* finished and has left one or two files in the working directory.
DataCsv == <<"d", ".", "c", "s", "v">>

InitPersist ==
    /\ inbox = <<TextRequest>>
    /\ cwd = 1
    /\ loopOwner = 1
    /\ pc = [r \in Reqs |-> IF r = 1 THEN "wait" ELSE "start"]
    /\ savedCwd = [r \in Reqs |-> OrigDir]
    /\ tmpdir = [r \in Reqs |-> r = 1]
    /\ \E names \in (SUBSET {OutPng, DataCsv}) \ {{}} :
          \E b \in SeqsUpTo({0, 97, 255}, MaxBytes) :
              fs = {[dir |-> OrigDir, name |-> MainPy, isfile |-> TRUE, bytes |-> <<>>]}
                     \cup {[dir |-> 1, name |-> n, isfile |-> TRUE,
                             bytes |-> IF n = OutPng THEN b ELSE <<97>>] :
                              n \in names}
    /\ kernel = [r \in Reqs |-> IF r = 1 THEN "alive" ELSE "none"]
    /\ kcwd = [r \in Reqs |-> IF r = 1 THEN 1 ELSE OrigDir]
    /\ issued = [r \in Reqs |-> IF r = 1 THEN <<CodeCmd>> ELSE <<>>]
    /\ iopub = [r \in Reqs |-> IF r = 1 THEN <<IdleMsg>> ELSE <<>>]
    /\ kfin = [r \in Reqs |-> IF r = 1 THEN 1 ELSE 0]
    /\ kemit = [r \in Reqs |-> 0]
    /\ loop = [r \in Reqs |-> IF r = 1 THEN [NoLoop EXCEPT !.waits = 1] ELSE NoLoop]
    /\ phase = [r \in Reqs |-> IF r = 1 THEN "code" ELSE "none"]
    /\ pkgIdx = [r \in Reqs |-> 0]
    /\ results = [r \in Reqs |-> <<>>]
    /\ pending = [r \in Reqs |-> <<"none">>]
    /\ resp = [r \in Reqs |-> NoResponse]
    /\ store = {}
    /\ clock = StartClock
    /\ tzoff = 0
    /\ lifespan = "serving"
    /\ cleanup_task = SleepingTask

NextPersist ==
    \/ Recv(1)
    \/ AfterRun(1)
    \/ CaptureFail(1)
    \/ Exit(1)

SpecPersist == InitPersist /\ [][NextPersist]_vars

\* ------------------------------------------------------------ SpecSweep
\* The sweeper task _cleanup_old_files over the files of the store.  Time
\* is counted in minutes here.  File names are sequences of characters.
Marker == <<"-", "l", "o", "n", "g">>

\* file_utils.py:26-29
lt_word(fname) == IF Contains(fname, <<"l", "o", "n", "g">>) THEN LongLifetime ELSE ShortLifetime
lt(fname) == IF Contains(fname, Marker) THEN LongLifetime ELSE ShortLifetime

\* datetime.utcnow(): the naive UTC time
utcnow(t) == t

\* datetime.fromtimestamp(ts): the naive LOCAL time of the timestamp
fromtimestamp(ts) == ts + tzoff

\* file_utils.py:35-36, evaluated at time t for the entry e
Expired(e, t) == utcnow(t) - fromtimestamp(e.mtime) > lt(e.name)

\* one iteration of the `while True` loop: the sleep, then the pass over
\* the listing of the store
\* what a pass at time t leaves of the store st
Swept(st, t) == {e \in st : ~(e.isfile /\ Expired(e, t))}

\* the os.remove calls of a pass that takes st to st2
RemovesOf(st, st2) == [n \in {e.name : e \in st \ st2} |-> 1]

Iteration ==
    /\ cleanup_task.state = "sleeping"
    /\ loopOwner = NoTask
    /\ clock' = clock + SleepMinutes
    /\ store' = Swept(store, clock')
    /\ cleanup_task' = [cleanup_task EXCEPT !.now = utcnow(clock'),
                                            !.removes = RemovesOf(store, store')]
    /\ UNCHANGED <<cwd, loopOwner, pc, inbox, savedCwd, tmpdir, fs, kernel, kcwd,
                   issued, kfin, kemit, iopub, loop, phase, pkgIdx, results,
                   pending, resp, tzoff, lifespan>>

\* the iterations followed in SpecSweep
SweepCycle ==
    /\ clock - StartClock < MaxSweeps * SleepMinutes
    /\ Iteration

SweepNames ==
    { <<"a">>,
      <<"a", "-", "l", "o", "n", "g">>,
      <<"l", "o", "n", "g">> }

\* what the files of the store hold: nothing, or the bytes of "long"
SweepContents == {<<>>, <<108, 111, 110, 103>>}

\* a handler writes a file into the store between two cycles
PersistFile ==
    /\ \E n \in SweepNames, b \in SweepContents :
          /\ \A e \in store : e.name # n
          /\ store' = store \cup {[req |-> 0, name |-> n, bytes |-> b,
                                   mtime |-> clock, isfile |-> TRUE,
                                   via |-> "unknown", file |-> <<>>]}
    /\ UNCHANGED <<cwd, loopOwner, pc, inbox, savedCwd, tmpdir, fs, kernel, kcwd,
                   issued, kfin, kemit, iopub, loop, phase, pkgIdx, results,
                   pending, resp, clock, tzoff, lifespan, cleanup_task>>

\* the offsets of three hosts: west of, at, and east of Greenwich
TzOffsets == {-60, 0, 60}

\* the stores the service can find: each name absent or present with an
\* age, in minutes, around one of the lifetimes, and possibly a subdirectory
SweepStores ==
    LET SweepAges ==
            { ShortLifetime - 2, ShortLifetime - 1, ShortLifetime,
              LongLifetime - 2, LongLifetime - 1, LongLifetime }
        Old(n, c) == [req |-> 0, name |-> n, bytes |-> c[2],
                      mtime |-> StartClock - c[1], isfile |-> TRUE,
                      via |-> "unknown", file |-> <<>>]
        Sub == [req |-> 0, name |-> <<"d">>, bytes |-> <<>>,
                mtime |-> StartClock - LongLifetime, isfile |-> FALSE,
                via |-> "unknown", file |-> <<>>]
        Absent == <<-1, <<>>>>
        Choices == [SweepNames -> (SweepAges \X SweepContents) \cup {Absent}]
    IN  { {Old(n, c[n]) : n \in {x \in SweepNames : c[x] # Absent}} \cup d :
            c \in Choices, d \in {{}, {Sub}} }

InitSweep ==
    /\ inbox = <<>>
    /\ cwd = OrigDir
    /\ loopOwner = NoTask
    /\ pc = [r \in Reqs |-> "start"]
    /\ savedCwd = [r \in Reqs |-> OrigDir]
    /\ tmpdir = [r \in Reqs |-> FALSE]
    /\ fs = {[dir |-> OrigDir, name |-> MainPy, isfile |-> TRUE, bytes |-> <<>>]}
    /\ kernel = [r \in Reqs |-> "none"]
    /\ kcwd = [r \in Reqs |-> OrigDir]
    /\ issued = [r \in Reqs |-> <<>>]
    /\ kfin = [r \in Reqs |-> 0]
    /\ kemit = [r \in Reqs |-> 0]
    /\ iopub = [r \in Reqs |-> <<>>]
    /\ loop = [r \in Reqs |-> NoLoop]
    /\ phase = [r \in Reqs |-> "none"]
    /\ pkgIdx = [r \in Reqs |-> 0]
    /\ results = [r \in Reqs |-> <<>>]
    /\ pending = [r \in Reqs |-> <<"none">>]
    /\ resp = [r \in Reqs |-> NoResponse]
    /\ store \in SweepStores
    /\ clock = StartClock
    /\ tzoff \in TzOffsets
    /\ lifespan = "serving"
    /\ cleanup_task = SleepingTask

NextSweep ==
    \/ SweepCycle
    \/ PersistFile

SpecSweep == InitSweep /\ [][NextSweep]_vars

\* ----------------------------------------------------------- SpecUpload
\* One file stored through upload_file or upload_long_life_file, followed
\* through the sweep cycles until both lifetimes have passed.

\* urllib.parse.quote over the characters used here: a space is escaped,
\* letters, digits, "-" and "." are kept
quote_char(c) == IF c = " " THEN <<"%", "2", "0">> ELSE <<c>>
RECURSIVE quote(_)
quote(s) == IF s = <<>> THEN <<>> ELSE quote_char(Head(s)) \o quote(Tail(s))

\* uuid4().hex, shortened
Uuids == {<<"1", "e">>}

\* main.py:121-123
ShortFileName(filename, uuid, extension) ==
    quote(filename \o <<"-">> \o uuid \o <<".">> \o extension)

\* main.py:164-166
LongFileName(filename, uuid, extension) ==
    quote(filename \o <<"-", "l", "o", "n", "g", "-">> \o uuid \o <<".">> \o extension)

\* the filename and extension fields a caller sends
UploadFilenames == { <<"a">>, <<"a", " ", "b">>, <<"a", "-", "l", "o", "n", "g">> }
UploadExtensions == { <<"x">>, <<"x", "-", "l", "o", "n", "g">> }

Stored(n, how) ==
    /\ lifespan = "serving"
    /\ loopOwner = NoTask
    /\ clock = StartClock
    /\ store = {}
    /\ store' = {[req |-> 0, name |-> n, bytes |-> <<>>, mtime |-> clock,
                  isfile |-> TRUE, via |-> how, file |-> <<>>]}
    /\ UNCHANGED <<cwd, loopOwner, pc, inbox, savedCwd, tmpdir, fs, kernel, kcwd,
                   issued, kfin, kemit, iopub, loop, phase, pkgIdx, results,
                   pending, resp, clock, tzoff, lifespan, cleanup_task>>

upload_file ==
    \E f \in UploadFilenames, u \in Uuids, x \in UploadExtensions :
        Stored(ShortFileName(f, u, x), "upload_file")

upload_long_life_file ==
    \E f \in UploadFilenames, u \in Uuids, x \in UploadExtensions :
        Stored(LongFileName(f, u, x), "upload_long_life_file")

\* the iterations followed in SpecUpload: an hour past the long lifetime
UploadCycle ==
    /\ clock - StartClock < LongLifetime + 62
    /\ Iteration

InitUpload ==
    /\ inbox = <<>>
    /\ cwd = OrigDir
    /\ loopOwner = NoTask
    /\ pc = [r \in Reqs |-> "start"]
    /\ savedCwd = [r \in Reqs |-> OrigDir]
    /\ tmpdir = [r \in Reqs |-> FALSE]
    /\ fs = {[dir |-> OrigDir, name |-> MainPy, isfile |-> TRUE, bytes |-> <<>>]}
    /\ kernel = [r \in Reqs |-> "none"]
    /\ kcwd = [r \in Reqs |-> OrigDir]
    /\ issued = [r \in Reqs |-> <<>>]
    /\ kfin = [r \in Reqs |-> 0]
    /\ kemit = [r \in Reqs |-> 0]
    /\ iopub = [r \in Reqs |-> <<>>]
    /\ loop = [r \in Reqs |-> NoLoop]
    /\ phase = [r \in Reqs |-> "none"]
    /\ pkgIdx = [r \in Reqs |-> 0]
    /\ results = [r \in Reqs |-> <<>>]
    /\ pending = [r \in Reqs |-> <<"none">>]
    /\ resp = [r \in Reqs |-> NoResponse]
    /\ store = {}
    /\ clock = StartClock
    /\ tzoff \in TzOffsets
    /\ lifespan = "serving"
    /\ cleanup_task = SleepingTask

NextUpload ==
    \/ upload_file
    \/ upload_long_life_file
    \/ UploadCycle

SpecUpload == InitUpload /\ [][NextUpload]_vars

\* ------------------------------------------------------------- SpecRace
\* The same iteration call by call, beside another replica of the service
\* (main_ray.py deploys several, each with its own cleanup task) that
\* sweeps the same directory.
RestOfService ==
    <<cwd, loopOwner, pc, inbox, savedCwd, tmpdir, fs, kernel, kcwd, issued, kfin,
      kemit, iopub, loop, phase, pkgIdx, results, pending, resp, tzoff, lifespan>>

\* the entry of the store named n, if there is one
Entries(n) == {e \in store : e.name = n}

\* file_utils.py:23-25: the sleep ends, `now` is taken and the directory
\* is listed
Wake ==
    /\ cleanup_task.state = "sleeping"
    /\ loopOwner = NoTask
    /\ clock - StartClock < MaxSweeps * SleepMinutes
    /\ clock' = clock + SleepMinutes
    /\ cleanup_task' = [state |-> "loop", now |-> utcnow(clock'),
                        todo |-> {e.name : e \in store}, cur |-> <<>>,
                        removes |-> <<>>]
    /\ UNCHANGED store
    /\ UNCHANGED RestOfService

\* file_utils.py:25-33: the next name of the listing; an entry that is not
\* a regular file (or is no longer there) is passed over
VisitNext ==
    /\ cleanup_task.state = "loop"
    /\ \E n \in cleanup_task.todo :
          cleanup_task' =
              [cleanup_task EXCEPT
                  !.todo = @ \ {n},
                  !.cur = n,
                  !.state = IF \E e \in Entries(n) : e.isfile
                            THEN "getmtime" ELSE "loop"]
    /\ UNCHANGED <<store, clock>>
    /\ UNCHANGED RestOfService

\* file_utils.py:35-36: os.path.getmtime raises FileNotFoundError when the
\* file is gone; nothing in the loop catches it
GetMtime ==
    /\ cleanup_task.state = "getmtime"
    /\ cleanup_task' =
          [cleanup_task EXCEPT
              !.state =
                  IF Entries(cleanup_task.cur) = {}
                  THEN "failed"
                  ELSE IF \E e \in Entries(cleanup_task.cur) :
                             cleanup_task.now - fromtimestamp(e.mtime) > lt(e.name)
                       THEN "remove"
                       ELSE "loop"]
    /\ UNCHANGED <<store, clock>>
    /\ UNCHANGED RestOfService

\* file_utils.py:37-40: os.remove, an OSError passed over
Remove ==
    /\ cleanup_task.state = "remove"
    /\ store' = store \ {e \in Entries(cleanup_task.cur) : e.isfile}
    /\ cleanup_task' =
          [cleanup_task EXCEPT
              !.state = "loop",
              !.removes = [n \in DOMAIN @ \cup {cleanup_task.cur} |->
                              IF n \in DOMAIN @
                              THEN @[n] + (IF n = cleanup_task.cur THEN 1 ELSE 0)
                              ELSE 1]]
    /\ UNCHANGED clock
    /\ UNCHANGED RestOfService

\* the listing is exhausted: back to the sleep
CycleEnd ==
    /\ cleanup_task.state = "loop"
    /\ cleanup_task.todo = {}
    /\ cleanup_task' = [cleanup_task EXCEPT !.state = "sleeping"]
    /\ UNCHANGED <<store, clock>>
    /\ UNCHANGED RestOfService

\* the cleanup task of another replica removes a file it finds expired
OtherReplicaRemoves ==
    /\ \E e \in store :
          /\ e.isfile
          /\ Expired(e, clock)
          /\ store' = store \ {e}
    /\ UNCHANGED <<clock, cleanup_task>>
    /\ UNCHANGED RestOfService

\* the stores of SpecSweep whose files are empty
RaceStores == {st \in SweepStores : \A e \in st : e.bytes = <<>>}

InitRace ==
    /\ inbox = <<>>
    /\ cwd = OrigDir
    /\ loopOwner = NoTask
    /\ pc = [r \in Reqs |-> "start"]
    /\ savedCwd = [r \in Reqs |-> OrigDir]
    /\ tmpdir = [r \in Reqs |-> FALSE]
    /\ fs = {[dir |-> OrigDir, name |-> MainPy, isfile |-> TRUE, bytes |-> <<>>]}
    /\ kernel = [r \in Reqs |-> "none"]
    /\ kcwd = [r \in Reqs |-> OrigDir]
    /\ issued = [r \in Reqs |-> <<>>]
    /\ kfin = [r \in Reqs |-> 0]
    /\ kemit = [r \in Reqs |-> 0]
    /\ iopub = [r \in Reqs |-> <<>>]
    /\ loop = [r \in Reqs |-> NoLoop]
    /\ phase = [r \in Reqs |-> "none"]
    /\ pkgIdx = [r \in Reqs |-> 0]
    /\ results = [r \in Reqs |-> <<>>]
    /\ pending = [r \in Reqs |-> <<"none">>]
    /\ resp = [r \in Reqs |-> NoResponse]
    /\ store \in RaceStores
    /\ clock = StartClock
    /\ tzoff \in TzOffsets
    /\ lifespan = "serving"
    /\ cleanup_task = SleepingTask

NextRace ==
    \/ Wake
    \/ VisitNext
    \/ GetMtime
    \/ Remove
    \/ CycleEnd
    \/ OtherReplicaRemoves

SpecRace == InitRace /\ [][NextRace]_vars

\* ------------------------------------------------------------- SpecLife
\* The lifespan of the app around the cleanup task: start-up, the cycles
\* (call by call, beside another replica), shutdown.
OfRequests ==
    <<cwd, loopOwner, pc, inbox, savedCwd, tmpdir, fs, kernel, kcwd, issued, kfin,
      kemit, iopub, loop, phase, pkgIdx, results, pending, resp, tzoff>>

\* file_utils.py:58: asyncio.create_task; the task runs up to its first
\* `await asyncio.sleep(60)`
Startup ==
    /\ lifespan = "down"
    /\ lifespan' = "serving"
    /\ cleanup_task' = SleepingTask
    /\ UNCHANGED <<store, clock>>
    /\ UNCHANGED OfRequests

\* Task.cancel(): a task suspended in an await will be resumed with
\* CancelledError instead of the result it waits for; a task that has
\* ended is left as it is
Cancel(t) == IF t.state = "sleeping" THEN [t EXCEPT !.state = "cancelling"] ELSE t

\* file_utils.py:60-62: shutdown; the lifespan runs on the event loop, so
\* the cleanup task is suspended in its sleep (or has ended) at this point
Shutdown ==
    /\ lifespan = "serving"
    /\ loopOwner = NoTask
    /\ cleanup_task.state \in {"sleeping", "failed"}
    /\ lifespan' = "awaiting"
    /\ cleanup_task' = Cancel(cleanup_task)
    /\ UNCHANGED <<store, clock>>
    /\ UNCHANGED OfRequests

\* CancelledError is raised at the `await asyncio.sleep(60)`; the loop has
\* no handler for it, so the coroutine ends
TaskCancelled ==
    /\ cleanup_task.state = "cancelling"
    /\ cleanup_task' = [cleanup_task EXCEPT !.state = "cancelled"]
    /\ UNCHANGED <<store, clock, lifespan>>
    /\ UNCHANGED OfRequests

\* `await cleanup_task` returns (or raises) once the task is done
Awaited_detached(t) == TRUE
Awaited(t) == t.state \in {"cancelled", "failed"}

\* file_utils.py:62-65: the await ends and the lifespan is left
LifespanExit ==
    /\ lifespan = "awaiting"
    /\ Awaited(cleanup_task)
    /\ lifespan' = "exited"
    /\ UNCHANGED <<store, clock, cleanup_task>>
    /\ UNCHANGED OfRequests

InitLife ==
    /\ inbox = <<>>
    /\ cwd = OrigDir
    /\ loopOwner = NoTask
    /\ pc = [r \in Reqs |-> "start"]
    /\ savedCwd = [r \in Reqs |-> OrigDir]
    /\ tmpdir = [r \in Reqs |-> FALSE]
    /\ fs = {[dir |-> OrigDir, name |-> MainPy, isfile |-> TRUE, bytes |-> <<>>]}
    /\ kernel = [r \in Reqs |-> "none"]
    /\ kcwd = [r \in Reqs |-> OrigDir]
    /\ issued = [r \in Reqs |-> <<>>]
    /\ kfin = [r \in Reqs |-> 0]
    /\ kemit = [r \in Reqs |-> 0]
    /\ iopub = [r \in Reqs |-> <<>>]
    /\ loop = [r \in Reqs |-> NoLoop]
    /\ phase = [r \in Reqs |-> "none"]
    /\ pkgIdx = [r \in Reqs |-> 0]
    /\ results = [r \in Reqs |-> <<>>]
    /\ pending = [r \in Reqs |-> <<"none">>]
    /\ resp = [r \in Reqs |-> NoResponse]
    /\ store \in RaceStores
    /\ clock = StartClock
    /\ tzoff = 0
    /\ lifespan = "down"
    /\ cleanup_task = [SleepingTask EXCEPT !.state = "none"]

NextLife ==
    \/ Startup
    \/ Wake
    \/ VisitNext
    \/ GetMtime
    \/ Remove
    \/ CycleEnd
    \/ OtherReplicaRemoves
    \/ Shutdown
    \/ TaskCancelled
    \/ LifespanExit

SpecLife == InitLife /\ [][NextLife]_vars

\* ------------------------------------------------------------- SpecBusy
\* The cleanup task beside the request handlers of its own process: both
\* run on the one event loop of the app.

\* the 60 seconds of the sleep have passed: the task is ready to go on and
\* waits for the event loop
SleepElapses ==
    /\ cleanup_task.state = "sleeping"
    /\ clock - StartClock < MaxSweeps * SleepMinutes
    /\ clock' = clock + SleepMinutes
    /\ cleanup_task' = [cleanup_task EXCEPT !.state = "due"]
    /\ UNCHANGED <<store, lifespan>>
    /\ UNCHANGED OfRequests

\* the event loop resumes the task: the pass over the store, up to the
\* next sleep
DueCycle ==
    /\ cleanup_task.state = "due"
    /\ loopOwner = NoTask
    /\ store' = Swept(store, clock)
    /\ cleanup_task' = [cleanup_task EXCEPT !.state = "sleeping",
                                            !.now = utcnow(clock),
                                            !.removes = RemovesOf(store, store')]
    /\ UNCHANGED <<clock, lifespan>>
    /\ UNCHANGED OfRequests

\* requests without packages, for an environment that is allowed
InitBusy ==
    /\ inbox \in [1..MaxReq ->
                    {q \in Requests :
                        /\ q.packages = <<>>
                        /\ q.env = s_python_scientific
                        /\ q.code # ""
                        /\ check_timeout(q.timeout)}]
    /\ InitRest

NextBusy ==
    \/ \E r \in Reqs :
          \/ Enter(r)
          \/ Spawn(r)
          \/ RunCellStart(r)
          \/ Tick(r)
          \/ WaitTimeout(r)
          \/ Recv(r)
          \/ AfterRun(r)
          \/ Exit(r)
          \/ Finalize(r)
          \/ KernelEmit(r)
          \/ KernelWrite(r)
    \/ SleepElapses
    \/ DueCycle

SpecBusy == InitBusy /\ [][NextBusy]_vars

\* ========================================================== properties
Running(r) == pc[r] = "wait"
LoopEnded(r) == pc[r] = "getfiles"

\* C1: against a transport that delivers no message after the execute
\* command, run_cell makes exactly one wait, of timeout seconds, never a
\* second one, and returns timedOut = true, errorFlag = true and the
\* timeout note as its output.
C1_SilentTransportTimesOutOnce ==
    \A r \in Reqs :
        /\ (Running(r) \/ LoopEnded(r)) /\ loop[r].recvd = 0
              => loop[r].waits = 1
        /\ Running(r) /\ loop[r].recvd = 0 => ~loop[r].timeout_flag
        /\ LoopEnded(r) /\ loop[r].recvd = 0 /\ loop[r].end # "fatal"
              => /\ loop[r].end = "timeout"
                 /\ loop[r].since = Req(r).timeout
                 /\ RunCellResult(r).to
                 /\ RunCellResult(r).err
                 /\ RunCellResult(r).out = <<TimeoutNote>>

C1_Witness ==
    \E r \in Reqs :
        LoopEnded(r) /\ loop[r].recvd = 0 /\ loop[r].end = "timeout" /\ loop[r].waits = 1

\* C2: while run_cell is running, the time since the last received message
\* (or since the execute command) never exceeds the request's timeout, and
\* the loop times out only when that time equals the timeout: every message
\* re-arms the bound, there is no deadline over the whole execution.
C2_SilenceBudget ==
    /\ [](\A r \in Reqs : Running(r) => loop[r].since <= Req(r).timeout)
    /\ [][\A r \in Reqs :
            ~loop[r].timeout_flag /\ loop'[r].timeout_flag
                => loop[r].since = Req(r).timeout]_vars

C2_Witness ==
    \E r \in Reqs :
        Running(r) /\ loop[r].recvd >= 1 /\ loop[r].since = Req(r).timeout

\* ---- helpers of the properties below
InHandler(r) == pc[r] \notin {"start", "done"}
Done(r) == pc[r] = "done"
SessionExists(r) == kernel[r] # "none"
IsInstall(cmd) == cmd[1] \in {"pip", "npm"}

\* the i-th command of request r was a package install whose run_cell
\* returned the error flag (an error frame or a silence timeout)
InstallFailedAt(r, i) ==
    /\ i \in 1..Len(results[r])
    /\ IsInstall(issued[r][i])
    /\ results[r][i].err

InstallFailed(r) == \E i \in 1..Len(results[r]) : InstallFailedAt(r, i)

InstallTimedOut(r) ==
    \E i \in 1..Len(results[r]) : InstallFailedAt(r, i) /\ results[r][i].to

C5_CwdRestored ==
    (\A q \in Reqs : ~InHandler(q))
        => \A r \in Reqs : Done(r) => cwd = savedCwd[r] /\ savedCwd[r] = OrigDir

C5_Witness ==
    /\ MaxReq >= 2
    /\ Done(1) /\ Done(2)
    /\ resp[1] = GenericErrorResponse[2]
    /\ TypeOf(resp[2].files) = "list"
    /\ cwd = OrigDir

\* C6: when run_cell returns, the files it captured (read, removed and
\* handed back) are exactly the regular files of the request's own
\* temporary directory; entries of other directories are left alone, also
\* when get_files raises half way (no result is recorded then).
C6_CaptureOwnDirOnly ==
    [][\A r \in Reqs :
          LoopEnded(r) /\ ~LoopEnded(r)'
              => /\ fs \ fs' \subseteq {e \in fs : e.dir = r /\ e.isfile}
                 /\ results'[r] # results[r]
                       => fs \ fs' = {e \in fs : e.dir = r /\ e.isfile}
                 /\ phase[r] = "code" /\ pending'[r][1] = "return"
                       => pending'[r][2].files =
                              IF \E e \in fs : e.dir = r /\ e.isfile
                              THEN List({e \in fs : e.dir = r /\ e.isfile})
                              ELSE None]_vars

C6_Witness ==
    /\ MaxReq >= 2
    /\ Done(1) /\ TypeOf(resp[1].files) = "list"
    /\ pc[2] = "withexit" /\ pending[2][1] = "return"
    /\ TypeOf(pending[2][2].files) = "list"
    /\ \E e \in fs : e.dir = OrigDir

\* C7: install commands are issued one at a time, in list order, and none
\* is issued after a package whose install returned the error flag.
C7_InstallStopsAtFirstFailure ==
    \A r \in Reqs :
        /\ Len(issued[r]) <= Len(results[r]) + 1
        /\ \A j \in 1..Len(issued[r]) :
              IsInstall(issued[r][j])
                  => /\ j <= Len(Req(r).packages)
                     /\ issued[r][j] = InstallCmd(Req(r).env, Req(r).packages[j])
                     /\ \A i \in 1..(j - 1) : ~InstallFailedAt(r, i)

C7_Witness ==
    \E r \in Reqs :
        /\ Done(r)
        /\ Len(Req(r).packages) = 2
        /\ Len(issued[r]) = 1
        /\ InstallFailedAt(r, 1)

\* C8 (as claimed): when a package's install command ended by the silence
\* timeout, the request's outcome reports timedout = true.
C8_InstallTimeoutReported ==
    \A r \in Reqs :
        Done(r) /\ InstallTimedOut(r) => resp[r].timedout = Bool(TRUE)

\* C9 (as claimed): when a package install failed, the outcome is the
\* install error itself (error = the install's error flag, stacktrace = the
\* text collected from the install command), not the generic
\* unexpected-error outcome.
C9_InstallErrorReturned ==
    \A r \in Reqs :
        Done(r) /\ InstallFailed(r)
            => /\ resp[r].error = Bool(TRUE)
               /\ TypeOf(resp[r].stacktrace) = "str"
               /\ resp[r] # GenericErrorResponse[2]

CodeIssuedAt(r) == {j \in 1..Len(issued[r]) : issued[r][j] = CodeCmd}

\* every package of request r has been installed and none returned the
\* error flag
AllInstalledCleanly(r) ==
    /\ Len(results[r]) >= Len(Req(r).packages)
    /\ \A i \in 1..Len(Req(r).packages) : IsInstall(issued[r][i]) /\ ~results[r][i].err

\* C11: when every package installed cleanly the installer hands back no
\* outcome and the handler goes on to the submitted code; the code is
\* issued exactly once, after the run_cell of the last package's install
\* has returned; and no entry of the package list and no code is issued
\* twice within a request.
C11_CleanInstallThenCodeOnce ==
    \A r \in 1..Len(inbox) :
        /\ \A j, k \in 1..Len(issued[r]) : j # k => issued[r][j] # issued[r][k]
        /\ \A j \in CodeIssuedAt(r) :
              /\ j = Len(Req(r).packages) + 1
              /\ AllInstalledCleanly(r)
        /\ (/\ Req(r).packages # <<>>
            /\ Len(results[r]) = Len(Req(r).packages)
            /\ AllInstalledCleanly(r)
            /\ InHandler(r) /\ pc[r] # "withexit")
              => /\ pc[r] \in {"runcell", "wait", "getfiles"}
                 /\ phase[r] = "code"
                 /\ pending[r] = <<"none">>
                 /\ CodeIssuedAt(r) = IF pc[r] = "runcell" THEN {}
                                      ELSE {Len(Req(r).packages) + 1}
        /\ (Done(r) /\ Req(r).packages # <<>> /\ AllInstalledCleanly(r))
              => Cardinality(CodeIssuedAt(r)) = 1

C11_Witness ==
    \E r \in Reqs :
        /\ Done(r)
        /\ Len(Req(r).packages) = 2
        /\ AllInstalledCleanly(r)
        /\ issued[r] = <<InstallCmd(Req(r).env, 1), InstallCmd(Req(r).env, 2), CodeCmd>>

C13_BaseEnvironmentRefused ==
    \A r \in 1..Len(inbox) :
        Lower(inbox[r].env) = s_python3 /\ check_timeout(inbox[r].timeout)
            => /\ kernel[r] = "none"
               /\ issued[r] = <<>>
               /\ Done(r) => /\ resp[r] = BaseEnvResponse[2]
                             /\ resp[r].timedout = Bool(FALSE)

\* an error message has been taken by the running run_cell call: its
\* traceback (a list) is among the collected outputs
ErrorConsumed(r) == \E i \in 1..Len(loop[r].outputs) : loop[r].outputs[i][1] = "list"

IdleAtHead(r) ==
    /\ iopub[r] # <<>>
    /\ Head(iopub[r]).msg_type = "status"
    /\ Head(iopub[r]).execution_state = "idle"

\* C14: throughout a run_cell call and in what it returns, the error flag
\* is set exactly when an error message was consumed or the loop ended by
\* the silence timeout, and the timeout flag exactly when the loop ended by
\* the silence timeout; consuming status(idle) ends the loop as "normal"
\* and leaves both flags as they were.
C14_FlagsOfRunCell ==
    /\ [](\A r \in Reqs :
            Running(r) \/ LoopEnded(r)
                => /\ loop[r].error_flag <=> (ErrorConsumed(r) \/ loop[r].end = "timeout")
                   /\ loop[r].timeout_flag <=> loop[r].end = "timeout"
                   /\ LoopEnded(r) => /\ RunCellResult(r).err = loop[r].error_flag
                                      /\ RunCellResult(r).to = loop[r].timeout_flag)
    /\ [][\A r \in Reqs :
            Running(r) /\ IdleAtHead(r) /\ loop'[r].recvd = loop[r].recvd + 1
                => /\ LoopEnded(r)'
                   /\ loop'[r].end = "normal"
                   /\ loop'[r].error_flag = loop[r].error_flag
                   /\ loop'[r].timeout_flag = loop[r].timeout_flag]_vars

C14_Witness ==
    \E r \in Reqs :
        /\ LoopEnded(r)
        /\ loop[r].end = "normal"
        /\ ErrorConsumed(r)
        /\ loop[r].error_flag /\ ~loop[r].timeout_flag

\* C15: an exception other than Empty inside the loop never leaves
\* run_cell: from the wait the call only goes on waiting or ends; when it
\* ended as "fatal" it returns like any other call (unless get_files
\* itself raises, which records no result): the result is recorded
\* with the flags and the output text collected so far, the regular files
\* of the working directory are captured and removed, and the caller goes
\* on (next package, failed install, or the response built from the result).
C15_FatalEndsLoopQuietly ==
    /\ [][\A r \in Reqs : Running(r) => pc'[r] \in {"wait", "getfiles"}]_vars
    /\ [][\A r \in Reqs :
            (LoopEnded(r) /\ loop[r].end = "fatal" /\ ~LoopEnded(r)'
               /\ results'[r] # results[r])
                => /\ results'[r] = Append(results[r],
                          [err |-> loop[r].error_flag, to |-> FALSE, end |-> "fatal"])
                   /\ fs' = fs \ {e \in fs : e.dir = r /\ e.isfile}
                   /\ phase[r] = "install"
                         => IF loop[r].error_flag
                            THEN pc'[r] = "withexit" /\ pending'[r] # <<"none">>
                            ELSE pc'[r] = "runcell"
                   /\ phase[r] = "code" /\ pending'[r][1] = "return"
                         => /\ pending'[r][2].output = Str(clean_output(loop[r].outputs))
                            /\ pending'[r][2].error = Bool(loop[r].error_flag)
                            /\ pending'[r][2].timedout = Bool(FALSE)]_vars

C15_Witness ==
    \E r \in Reqs :
        /\ Done(r)
        /\ Len(results[r]) = 2
        /\ results[r][1].end = "fatal"
        /\ results[r][2].end = "fatal" /\ results[r][2].err
        /\ resp[r].error = Bool(TRUE)
        /\ TypeOf(resp[r].output) = "str"

\* ---- the text of a call, stated from the messages
RECURSIVE JoinedByNewlines(_)
JoinedByNewlines(parts) ==
    IF parts = <<>> THEN <<>>
    ELSE IF Len(parts) = 1 THEN parts[1]
    ELSE JoinedByNewlines(SubSeq(parts, 1, Len(parts) - 1)) \o <<NL>> \o parts[Len(parts)]

Trimmed(s) ==
    LET ink == {i \in 1..Len(s) : s[i] \notin Whitespace}
    IN  IF ink = {} THEN <<>>
        ELSE SubSeq(s, CHOOSE i \in ink : \A j \in ink : i <= j,
                       CHOOSE i \in ink : \A j \in ink : i >= j)

\* position k of s lies in a colour sequence: ESC [ ... m on one line
InColour(s, k) ==
    \E i \in 1..k : \E j \in k..Len(s) :
        /\ j >= i + 2
        /\ s[i] = ESC /\ s[i + 1] = "[" /\ s[j] = "m"
        /\ \A x \in (i + 2)..(j - 1) : s[x] \notin {"m", NL}

RECURSIVE UncolouredFrom(_, _)
UncolouredFrom(s, k) ==
    IF k > Len(s) THEN <<>>
    ELSE (IF InColour(s, k) THEN <<>> ELSE <<s[k]>>) \o UncolouredFrom(s, k + 1)

\* what a consumed message adds to the text: nothing, or one fragment
FragmentOf(m) ==
    CASE m.msg_type = "stream" -> <<m.text>>
      [] m.msg_type = "error" -> <<UncolouredFrom(JoinedByNewlines(m.traceback), 1)>>
      [] m.msg_type = "execute_result" ->
            LET plain == {i \in 1..Len(m.data) : m.data[i][1] = "text/plain"}
            IN  IF plain = {} THEN <<>> ELSE <<m.data[CHOOSE i \in plain : TRUE][2]>>
      [] OTHER -> <<>>

FragmentsSoFar(r) == outputs_only_str(loop[r].outputs)

Consumes(r) == Running(r) /\ iopub[r] # <<>> /\ loop'[r].recvd = loop[r].recvd + 1

\* C16 (as claimed): every result message and every stream message that
\* run_cell consumes adds a fragment to the text.
C16_EveryResultContributes ==
    [][\A r \in Reqs :
          Consumes(r) /\ Head(iopub[r]).msg_type \in {"execute_result", "stream"}
              => Len(FragmentsSoFar(r)') = Len(FragmentsSoFar(r)) + 1]_vars

\* C16 (amended): each consumed message adds its fragment after those of
\* the messages consumed before it (a stream message its text, a result
\* message its text/plain payload or nothing when it has none, an error
\* message its trace lines joined by newlines with every ESC[...m sequence
\* removed), the silence timeout adds the timeout note last, and the
\* text of the response is the fragments joined by newlines and trimmed of
\* leading and trailing white space.
C16_TextOfRunCell ==
    /\ [][\A r \in Reqs :
            Consumes(r) =>
                FragmentsSoFar(r)' = FragmentsSoFar(r) \o FragmentOf(Head(iopub[r]))]_vars
    /\ [][\A r \in Reqs :
            Running(r) /\ loop'[r].end = "timeout"
                => /\ FragmentsSoFar(r)' = Append(FragmentsSoFar(r), <<TimeoutNote>>)
                   /\ LoopEnded(r)']_vars
    /\ [][\A r \in Reqs :
            (/\ LoopEnded(r) /\ phase[r] = "code"
             /\ pc'[r] = "withexit" /\ pending'[r][1] = "return")
               => pending'[r][2].output =
                      Str(Trimmed(JoinedByNewlines(FragmentsSoFar(r))))]_vars

C16_Witness ==
    /\ inbox = <<TextRequest>>
    /\ Done(1)
    /\ results[1] = <<[err |-> TRUE, to |-> FALSE, end |-> "normal"]>>
    /\ resp[1].output = Str(<<"a", NL, NL, "E">>)

\* messages the transport has delivered to the running call so far
Arrived(r) == loop[r].recvd + Len(iopub[r])

IdleQueued(r) == \E i \in 1..Len(iopub[r]) :
                     /\ iopub[r][i].msg_type = "status"
                     /\ iopub[r][i].execution_state = "idle"

\* C17: a running run_cell call returns once status(idle) has been
\* delivered, and returns unless a further message arrives (silence for
\* the timeout ends it); it ends in no other way than by consuming
\* status(idle), by a wait that lasted the whole timeout with nothing
\* delivered, or by an exception, so consuming a non-idle message always
\* leaves the call running.
C17_RunCellEndsOnlyByIdleSilenceOrRaise ==
    /\ \A r \in Reqs : (Running(r) /\ IdleQueued(r)) ~> ~Running(r)
    /\ \A r \in Reqs : \A n \in 0..(MaxEmit + 1) :
          (Running(r) /\ Arrived(r) = n) ~> (~Running(r) \/ Arrived(r) > n)
    /\ [][\A r \in Reqs :
            Running(r) /\ ~Running(r)'
                => /\ LoopEnded(r)'
                   /\ \/ /\ loop'[r].end = "normal"
                         /\ IdleAtHead(r) /\ loop'[r].recvd = loop[r].recvd + 1
                      \/ /\ loop'[r].end = "timeout"
                         /\ iopub[r] = <<>> /\ loop[r].since = Req(r).timeout
                         /\ loop'[r].recvd = loop[r].recvd
                      \/ /\ loop'[r].end = "fatal"]_vars
    /\ [][\A r \in Reqs :
            Consumes(r) /\ ~IdleAtHead(r) => Running(r)' /\ loop'[r].since = 0]_vars

C17_Witness ==
    \E r \in Reqs :
        /\ LoopEnded(r)
        /\ loop[r].end = "timeout"
        /\ loop[r].recvd = MaxEmit
        /\ loop[r].waits = MaxEmit + 1
        /\ KernelBusy(r)

\* C18 (as claimed): when artifact capture returns, nothing is left in the
\* working directory of the request, and every entry that was removed is
\* in the list handed back (for the code's run_cell: in the response).
C18_DirectoryEmptyAfterCapture ==
    [][\A r \in Reqs :
          LoopEnded(r) /\ ~LoopEnded(r)'
              => /\ {e \in fs' : e.dir = r} = {}
                 /\ (phase[r] = "code" /\ pending'[r][1] = "return" /\ fs' # fs)
                       => pending'[r][2].files = List(fs \ fs')]_vars

\* C19: every file written to the store holds exactly the bytes the
\* captured file had in the working directory, whatever they are (the
\* empty content included), and when no write failed every captured file
\* has been written.
C19_PersistedBytesAreTheOriginal ==
    [][\A r \in Reqs :
          LoopEnded(r) /\ phase[r] = "code" /\ ~LoopEnded(r)'
              => /\ \A w \in store' \ store :
                       \E e \in fs \ fs' :
                           e.dir = r /\ e.name = w.file /\ w.req = r /\ w.bytes = e.bytes
                 /\ pending'[r][1] = "return"
                       => \A e \in fs \ fs' : \E w \in store' \ store : w.file = e.name]_vars

C19_Witness ==
    /\ Done(1)
    /\ store = {[req |-> 1, name |-> <<"o", "u", "t", "-", "e", "1", ".", "p", "n", "g">>,
                  file |-> OutPng, bytes |-> <<255, 97, 0, 255>>,
                  mtime |-> clock, isfile |-> TRUE, via |-> "execute_code"]}
    /\ TypeOf(resp[1].files) = "list"

\* C20: at each sweep cycle every regular file of the store whose age (the
\* time of the cycle minus its last-modified time) exceeds the lifetime of
\* its tier is removed, and every regular file whose age does not exceed it
\* stays in the store unchanged, whatever the host's time zone is.
TrueAge(e, t) == t - e.mtime
C20_SweepRemovesExactlyTheExpired ==
    [][clock' # clock
          => \A e \in store :
                e.isfile => IF TrueAge(e, clock') > lt(e.name)
                            THEN e \notin store'
                            ELSE e \in store']_vars

\* the same on a host whose local time is UTC
C20_AtGreenwich ==
    [][(clock' # clock /\ tzoff = 0)
          => \A e \in store :
                e.isfile => IF TrueAge(e, clock') > lt(e.name)
                            THEN e \notin store'
                            ELSE e \in store']_vars

\* what the cycle does on every host: the age it compares is the true age
\* less the host's offset from UTC
C20_SweepComparesShiftedAge ==
    [][clock' # clock
          => \A e \in store :
                IF e.isfile /\ TrueAge(e, clock') - tzoff > lt(e.name)
                THEN e \notin store'
                ELSE e \in store']_vars

\* a file past its lifetime survives a cycle east of Greenwich
C20_ExpiredSurvives ==
    /\ clock > StartClock
    /\ tzoff > 0
    /\ \E e \in store : e.isfile /\ TrueAge(e, clock) > lt(e.name)

\* C21 (as claimed): the sweeper gives the long lifetime to exactly the
\* files whose name contains "long", and the short one to all others.
LongWord == <<"l", "o", "n", "g">>
MeasuredAge(e, t) == utcnow(t) - fromtimestamp(e.mtime)
C21_LongWordGivesLongTier ==
    [][clock' # clock
          => \A e \in store :
                e.isfile
                  => (e \notin store'
                        <=> MeasuredAge(e, clock') >
                              IF Contains(e.name, LongWord)
                              THEN LongLifetime ELSE ShortLifetime)]_vars

\* C21 (amended): the sweeper gives the long lifetime to exactly the files
\* whose name contains "-long" (the hyphen included) and the short one to
\* all others, a name holding "long" without the hyphen among them; the
\* lifetime is a function of the name alone: it is the same at every cycle
\* and for every content.
C21_HyphenLongGivesLongTier ==
    [][clock' # clock
          => \A e \in store :
                e.isfile
                  => (e \notin store'
                        <=> MeasuredAge(e, clock') >
                              IF Contains(e.name, <<"-">> \o LongWord)
                              THEN LongLifetime ELSE ShortLifetime)]_vars

\* a cycle has removed the file named "long" and left one named "a-long"
\* that is older than the short lifetime and holds the bytes of "long"
C21_Witness ==
    /\ LongWord \in DOMAIN cleanup_task.removes
    /\ \E e \in store :
          /\ e.isfile
          /\ e.name = <<"a", "-">> \o LongWord
          /\ e.bytes # <<>>
          /\ MeasuredAge(e, clock) > ShortLifetime

\* C22: whatever filename and extension the caller supplies, a file stored
\* through upload_file is removed at the first cycle at which its age
\* exceeds 20 minutes and not before, and a file stored through
\* upload_long_life_file is not removed while its age does not exceed 48
\* hours.
C22_UploadLifetimes ==
    [][clock' # clock
          => \A e \in store :
                /\ e.via = "upload_file"
                     => (e \notin store' <=> TrueAge(e, clock') > ShortLifetime)
                /\ (e.via = "upload_long_life_file"
                      /\ TrueAge(e, clock') <= LongLifetime)
                     => e \in store']_vars

\* the same for the names that do not hold the marker, on a host whose
\* local time is UTC
C22_PlainNamesAtGreenwich ==
    [][(clock' # clock /\ tzoff = 0)
          => \A e \in store :
                /\ (e.via = "upload_file" /\ ~Contains(e.name, Marker))
                     => (e \notin store' <=> TrueAge(e, clock') > ShortLifetime)
                /\ (e.via = "upload_long_life_file"
                      /\ TrueAge(e, clock') <= LongLifetime)
                     => e \in store']_vars

\* a file stored through upload_file is in the store a day later, on a
\* host whose local time is UTC
C22_ShortUploadLivesOn ==
    /\ tzoff = 0
    /\ \E e \in store : e.via = "upload_file" /\ TrueAge(e, clock) > 1440

\* C23: the sweep is never fatal: an entry that disappears at any point of
\* its handling (between the listing, the age check and the deletion) does
\* not end the cleanup task, and no cycle calls os.remove twice on a file.
AtMostOncePerCycle ==
    \A n \in DOMAIN cleanup_task.removes : cleanup_task.removes[n] <= 1
C23_SweepNeverFatal ==
    /\ cleanup_task.state # "failed"
    /\ AtMostOncePerCycle

\* the half that holds: no file is removed twice in a cycle, and a file
\* that is gone when os.remove is called is passed over
C23_RemoveIsBestEffort ==
    /\ []AtMostOncePerCycle
    /\ [][(cleanup_task.state = "remove" /\ cleanup_task' # cleanup_task)
             => cleanup_task'.state = "loop"]_vars

\* the cleanup task has ended on the exception while a file that is past
\* its lifetime is still in the store
C23_TaskDied ==
    /\ cleanup_task.state = "failed"
    /\ \E e \in store : e.isfile /\ Expired(e, clock)

\* C24: the cleanup task exists from the moment the service serves; at
\* shutdown it is cancelled and awaited: when the lifespan has been left
\* the task has ended, and from then on it runs no cycle and removes
\* nothing.
C24_TaskLivesWithinLifespan ==
    /\ [](lifespan = "down" => cleanup_task.state = "none")
    /\ [](lifespan = "serving" => cleanup_task.state # "none")
    /\ [](lifespan = "exited" => cleanup_task.state \in {"cancelled", "failed"})
    /\ [][lifespan = "exited" => cleanup_task' = cleanup_task]_vars

\* the lifespan was left by a cancellation while a file past its lifetime
\* was waiting for the next cycle
C24_Witness ==
    /\ lifespan = "exited"
    /\ cleanup_task.state = "cancelled"
    /\ \E e \in store : e.isfile /\ Expired(e, clock + SleepMinutes)

\* C25: sweep cycles and request handling do not block each other: no
\* handler spends a second waiting for its kernel while a sweep cycle is
\* due, nor while another request that has been received has not been
\* started.
WaitsASecond(r) == loop'[r].silence = loop[r].silence + 1
C25_SweepNotDelayed ==
    [][\A r \in Reqs : WaitsASecond(r) => cleanup_task.state # "due"]_vars
C25_RequestNotDelayed ==
    [][\A r \in Reqs :
          WaitsASecond(r) => \A q \in 1..Len(inbox) : pc[q] # "start"]_vars
C25_NoMutualBlocking ==
    [][\A r \in Reqs :
          WaitsASecond(r)
            => /\ cleanup_task.state # "due"
               /\ \A q \in 1..Len(inbox) : pc[q] # "start"]_vars

\* a cycle is due, a handler holds the event loop and has waited for its
\* kernel since the cycle became due, and another request has not started
C25_Blocked ==
    /\ cleanup_task.state = "due"
    /\ loopOwner = 1
    /\ loop[1].silence > 0
    /\ pc[2] = "start"

FatalSeen(r) == \E i \in 1..Len(results[r]) : results[r][i].end = "fatal"
C27_EveryFailureGivesGenericOutcome ==
    \A r \in 1..Len(inbox) :
        (Done(r) /\ FatalSeen(r)) => resp[r] = GenericErrorResponse[2]

\* C27 (amended): a failure that reaches execute_code - the session cannot
\* be created, get_files raises, a captured file cannot be written to the
\* store, the response cannot be built - is answered with the generic
\* outcome: output absent, an error text, timedout false and the stack
\* trace; a failure inside the wait for a message ends run_cell's loop and
\* is not reported at all; whatever fails, the handler returns a response.
IsGeneric(v) ==
    /\ v.output = None
    /\ TypeOf(v.error) = "str" /\ v.error[2] # <<>>
    /\ v.timedout = Bool(FALSE)
    /\ v.files = None
    /\ TypeOf(v.stacktrace) = "str"
Raised(r) == pending[r] = <<"raise">>
C27_FailuresThatReachTheHandler ==
    /\ [](\A r \in 1..Len(inbox) :
            (Done(r) /\ IsValid(inbox[r])) => resp[r] # NoResponse)
    /\ [][\A r \in 1..Len(inbox) :
             /\ (pc[r] = "spawn" /\ pc'[r] = "withexit" /\ ~SessionExists(r)')
                   => Raised(r)'
             /\ (pc[r] = "getfiles" /\ pc'[r] = "withexit" /\ results'[r] = results[r])
                   => Raised(r)'
             /\ (pc[r] = "getfiles" /\ phase[r] = "code" /\ pc'[r] = "withexit"
                   /\ \E e \in Captured(r) :
                         \A w \in store' \ store : w.file # e.name)
                   => Raised(r)'
             /\ (Raised(r) /\ Done(r)') => IsGeneric(resp'[r])
             /\ (Running(r) /\ loop'[r].end = "fatal")
                   => (LoopEnded(r)' /\ pending'[r] = pending[r])]_vars

\* a request answered with the generic outcome after get_files raised
C27_Witness ==
    /\ Done(1)
    /\ IsGeneric(resp[1])
    /\ SessionExists(1)
    /\ Len(issued[1]) = 1
    /\ results[1] = <<>>

\* C28: when run_cell returns for the submitted code and the working
\* directory holds no regular file, the capture gives the empty list and
\* raises nothing: no file is touched, nothing is written to the store, and
\* the response has files absent, with the collected text and both flags
\* as run_cell returned them.
C28_NoFilesGivesAbsentArtifacts ==
    [][\A r \in 1..Len(inbox) :
          (LoopEnded(r) /\ phase[r] = "code" /\ Captured(r) = {} /\ ~LoopEnded(r)')
              => /\ fs' = fs
                 /\ store' = store
                 /\ results'[r] = Append(results[r], Summary(RunCellResult(r)))
                 /\ pending'[r][1] = "return"
                 /\ pending'[r][2].files = None
                 /\ pending'[r][2].output = Str(clean_output(loop[r].outputs))
                 /\ pending'[r][2].error = Bool(loop[r].error_flag)
                 /\ pending'[r][2].timedout = Bool(loop[r].timeout_flag)
                 /\ pending'[r][2].stacktrace = None]_vars

\* a request whose code printed something and left no file has been
\* answered: text present, artifacts absent
C28_Witness ==
    /\ Done(1)
    /\ Len(results[1]) = 1
    /\ results[1][1].end = "normal"
    /\ resp[1].files = None
    /\ TypeOf(resp[1].output) = "str" /\ resp[1].output[2] # <<>>
    /\ resp[1].error = Bool(FALSE)
    /\ resp[1].timedout = Bool(FALSE)
    /\ store = {}

OwnFiles(r) == {e \in fs : e.dir = r /\ e.isfile}
C30_InstallCaptureDiscards ==
    [][\A r \in 1..Len(inbox) :
          /\ (LoopEnded(r) /\ phase[r] = "install" /\ results'[r] # results[r])
                => /\ fs \ fs' = OwnFiles(r)
                   /\ fs' \subseteq fs
                   /\ store' = store
                   /\ pending'[r][1] = "return" => pending'[r][2].files = None
                   /\ pc'[r] = "runcell" => OwnFiles(r)' = {}
          /\ (LoopEnded(r) /\ phase[r] = "code" /\ pending'[r][1] = "return"
                /\ TypeOf(pending'[r][2].files) = "list")
                => pending'[r][2].files[2] = OwnFiles(r)]_vars

\* an install command has finished normally and a file is in the working
\* directory
C30_Witness ==
    /\ LoopEnded(1)
    /\ phase[1] = "install"
    /\ loop[1].end = "normal"
    /\ ~loop[1].error_flag
    /\ OwnFiles(1) # {}

\* C31: when the handler fails to write one of the captured files to the
\* store, the request is answered with the generic error outcome, whose
\* artifact list is absent; the files written before the failure are in the
\* store and stay there when the handler leaves, the response lists no
\* file, and every captured original is gone from the working directory.
PersistFails(r) ==
    /\ LoopEnded(r) /\ phase[r] = "code" /\ results'[r] # results[r]
    /\ \E e \in Captured(r) : \A w \in store' \ store : w.file # e.name
Orphans(r) == {w \in store : w.req = r /\ w.via = "execute_code"}
C31_FailedPersistLeavesOrphans ==
    [][\A r \in 1..Len(inbox) :
          /\ PersistFails(r)
                => /\ Raised(r)'
                   /\ Captured(r) \cap fs' = {}
                   /\ store \subseteq store'
                   /\ \A w \in store' \ store :
                         /\ w.req = r
                         /\ \E e \in Captured(r) :
                               w.file = e.name /\ w.bytes = PersistedBytes(e)
          /\ (Raised(r) /\ Done(r)')
                => /\ IsGeneric(resp'[r])
                   /\ resp'[r].files = None
                   /\ store' = store]_vars

\* a request has been answered with the generic outcome while a file it
\* wrote before the failure is in the store
C31_Witness ==
    \E r \in 1..Len(inbox) :
        /\ Done(r)
        /\ IsGeneric(resp[r])
        /\ Orphans(r) # {}

\* C32: a validated request whose code is the empty string never has a
\* session, never installs a package and never issues a command, its
\* handler leaves the store as it found it, and its response is the fixed
\* 'No code provided to run' error with timedout false and neither output
\* nor artifacts.
EmptyCode(r) == IsValid(inbox[r]) /\ inbox[r].code = ""
C32_EmptyCodeShortCircuits ==
    /\ [](\A r \in 1..Len(inbox) :
            EmptyCode(r) =>
                /\ ~SessionExists(r)
                /\ issued[r] = <<>>
                /\ results[r] = <<>>
                /\ pkgIdx[r] = 0
                /\ \A w \in store : w.req # r
                /\ Done(r) =>
                      /\ resp[r] = NoCodeResponse[2]
                      /\ resp[r].error = Str(<<"No code provided to run">>)
                      /\ resp[r].timedout = Bool(FALSE)
                      /\ resp[r].output = None
                      /\ resp[r].files = None)
    /\ [][\A r \in 1..Len(inbox) :
             (EmptyCode(r) /\ pc'[r] # pc[r]) => store' = store]_vars

\* a request that names packages and has no code has been answered
C32_Witness ==
    \E r \in 1..Len(inbox) :
        /\ EmptyCode(r)
        /\ inbox[r].packages # <<>>
        /\ Done(r)
        /\ resp[r] = NoCodeResponse[2]

====
